--------------------------------- MODULE Inbox ---------------------------------
(***************************************************************************)
(* What is made of the texts that come in, before and after the language   *)
(* model: mails are grouped by the company they are exchanged with, pasted *)
(* conversations are split into utterances, and what the model quotes is   *)
(* looked up in the utterance it is said to come from.                     *)
(*                                                                         *)
(* The functions are pure; the state is the input, which grows by one mail *)
(* or one line at a time.  A text is a sequence of characters, of which    *)
(* four kinds are told apart.                                              *)
(***************************************************************************)
EXTENDS Naturals, Sequences, FiniteSets, SequencesExt

CONSTANTS
    Addresses,     \* as they are spelled
    MyAddresses,   \* the connected mailbox, as the provider spells it
    Times,
    MaxMails,      \* bound: mails in the list
    MaxLines,      \* bound: lines pasted
    MaxLength,     \* bound: characters of a line
    SpeakerLimit   \* _MAX_SPEAKER_LENGTH

\* capital: spelled with other letters than small ones.
Address == [box : STRING, domain : STRING, capital : BOOLEAN]

ASSUME InboxAssumption ==
    /\ MyAddresses \subseteq Addresses
    /\ Addresses \subseteq Address
    /\ Times \subseteq Nat
    /\ {MaxMails, MaxLines, MaxLength, SpeakerLimit} \subseteq Nat

VARIABLES
    shown,   \* "mails" or "conversation"
    mails,   \* as the provider lists them
    lines    \* of the pasted conversation

vars == <<shown, mails, lines>>

------------------------------------------------------------------------------
(* Mails by company.                                                       *)

Lower(a) == [a EXCEPT !.capital = FALSE]

Nobody == [box |-> "", domain |-> "", capital |-> FALSE]

\* A mutant: the sender is compared as it is spelled.
Counterparty_spelled(mail) ==
    LET mine   == {Lower(a) : a \in MyAddresses}
        others == SelectSeq(mail.to, LAMBDA a : Lower(a) \notin mine)
    IN  IF mail.from \notin mine THEN mail.from
        ELSE IF others = <<>> THEN Nobody ELSE Head(others)

\* email_counterparty: who sent it, or the first other recipient of my own.
Counterparty(mail) ==
    LET mine   == {Lower(a) : a \in MyAddresses}
        others == SelectSeq(mail.to, LAMBDA a : Lower(a) \notin mine)
    IN  IF Lower(mail.from) \notin mine THEN mail.from
        ELSE IF others = <<>> THEN Nobody ELSE Head(others)

\* sorted(..., reverse=True) by the times of the entries: the latest first, the
\* earlier entry first among equals.
LatestFirst(s, times) ==
    LET UpTo(i) == {j \in DOMAIN s : times[j] > times[i] \/ (times[j] = times[i] /\ j <= i)}
    IN  [k \in DOMAIN s |-> s[CHOOSE i \in DOMAIN s : Cardinality(UpTo(i)) = k]]

\* The keys of a dict that setdefault fills in the order of s.
Keys(s) == FoldLeft(LAMBDA keys, x : IF Contains(keys, x) THEN keys ELSE Append(keys, x), <<>>, s)

\* Mails are dated by themselves, people and companies by their latest entry.
MailsByTime(list) == LatestFirst(list, [i \in DOMAIN list |-> list[i].at])
GroupsByTime(groups) == LatestFirst(groups, [k \in DOMAIN groups |-> groups[k].latestAt])

SenderGroup(address, ordered) ==
    [address |-> address, count |-> Len(ordered), latestAt |-> ordered[1].at, mails |-> ordered]

CompanyGroup(domain, ordered) ==
    [domain |-> domain, latestAt |-> ordered[1].latestAt, senders |-> ordered,
     count |-> FoldLeft(LAMBDA n, g : n + g.count, 0, ordered)]

Senders(list) ==
    LET people == Keys([i \in DOMAIN list |-> Lower(Counterparty(list[i]))])
    IN  [k \in DOMAIN people |->
            SenderGroup(people[k],
                MailsByTime(SelectSeq(list, LAMBDA m : Lower(Counterparty(m)) = people[k])))]

Companies(senders) ==
    LET domains == Keys([k \in DOMAIN senders |-> senders[k].address.domain])
    IN  [k \in DOMAIN domains |->
            CompanyGroup(domains[k],
                GroupsByTime(SelectSeq(senders, LAMBDA g : g.address.domain = domains[k])))]

\* group_gmail_by_company: mails of nobody are left out.
GroupByCompany(list) ==
    GroupsByTime(Companies(Senders(SelectSeq(list, LAMBDA m : Counterparty(m) # Nobody))))

------------------------------------------------------------------------------
(* Pasted conversations and quotations.                                    *)

\* A letter, a blank, a quotation mark, a colon.
Chars == {"x", " ", "'", ":"}

Blank(text) == \A i \in DOMAIN text : text[i] = " "

\* str.strip(): without the blanks at both ends.
Strip(text) ==
    LET full == {i \in DOMAIN text : text[i] # " "}
    IN  IF full = {} THEN <<>>
        ELSE SubSeq(text, CHOOSE i \in full : \A j \in full : i <= j,
                          CHOOSE i \in full : \A j \in full : i >= j)

\* line.find(":"), counted from 0; a line without one counts as too long.
Find(text) ==
    LET at == {i \in DOMAIN text : text[i] = ":"}
    IN  IF at = {} THEN SpeakerLimit ELSE (CHOOSE i \in at : \A j \in at : i <= j) - 1

Unknown == "unknown"

\* One line that is not blank, as to_utterances stores it.
Utterance(line, index) ==
    LET colon == Find(line)
    IN  IF 0 < colon /\ colon < SpeakerLimit
        THEN [index |-> index, speaker |-> Strip(SubSeq(line, 1, colon)),
              text |-> Strip(SubSeq(line, colon + 2, Len(line)))]
        ELSE [index |-> index, speaker |-> Unknown, text |-> line]

\* A mutant: blank lines are counted.
Utterances_counting(list) ==
    LET stripped == [i \in DOMAIN list |-> [line |-> Strip(list[i]), index |-> i - 1]]
        kept     == SelectSeq(stripped, LAMBDA l : l.line # <<>>)
    IN  [i \in DOMAIN kept |-> Utterance(kept[i].line, kept[i].index)]

\* to_utterances.
Utterances(list) ==
    LET stripped == [i \in DOMAIN list |-> Strip(list[i])]
        kept     == SelectSeq(stripped, LAMBDA line : line # <<>>)
    IN  [i \in DOMAIN kept |-> Utterance(kept[i], i - 1)]

Normalize(text) == SelectSeq(text, LAMBDA c : c \notin {" ", "'"})

\* part in text, for strings.
Within(part, text) ==
    \E start \in 0 .. Len(text) :
        /\ start + Len(part) <= Len(text)
        /\ \A i \in DOMAIN part : text[start + i] = part[i]

\* is_grounded: the first utterance of that index decides.
IsGrounded(utterances, evidence) ==
    LET at == {i \in DOMAIN utterances : utterances[i].index = evidence.utteranceIndex}
    IN  /\ at # {}
        /\ Within(Normalize(evidence.quote),
                  Normalize(utterances[CHOOSE i \in at : \A j \in at : i <= j].text))

\* ground_evidence keeps what is grounded, in its order.
GroundEvidence(utterances, evidence) ==
    SelectSeq(evidence, LAMBDA e : IsGrounded(utterances, e))

\* is_quote_in, for contracts and materials.
IsQuoteIn(text, quote) ==
    Strip(quote) # <<>> /\ Within(Normalize(quote), Normalize(text))

------------------------------------------------------------------------------
Init ==
    /\ shown \in {"mails", "conversation"}
    /\ mails = <<>>
    /\ lines = <<>>

\* One more mail in the list; its number tells it from others of its content.
Receive(from, to, at) ==
    /\ shown = "mails"
    /\ Len(mails) < MaxMails
    /\ mails' = Append(mails, [id |-> Len(mails) + 1, from |-> from, to |-> to, at |-> at])
    /\ UNCHANGED <<shown, lines>>

\* One more line.
Paste(line) ==
    /\ shown = "conversation"
    /\ Len(lines) < MaxLines
    /\ lines' = Append(lines, line)
    /\ UNCHANGED <<shown, mails>>

Texts(length) == UNION {[1 .. n -> Chars] : n \in 0 .. length}

\* The spellings of my own addresses.
Mine == {a \in Addresses : \E m \in MyAddresses : Lower(a) = Lower(m)}

\* Of mine to nobody, to one or to another after me; of others to me.
Recipients(from) ==
    IF from \in Mine
    THEN {<<>>} \cup {<<a>> : a \in Addresses} \cup {<<m, a>> : m \in Mine, a \in Addresses \ Mine}
    ELSE {<<m>> : m \in MyAddresses}

Next ==
    \/ \E from \in Addresses, at \in Times : \E to \in Recipients(from) : Receive(from, to, at)
    \/ \E line \in Texts(MaxLength) : Paste(line)

Spec == Init /\ [][Next]_vars

------------------------------------------------------------------------------
(* Properties.                                                             *)

Descending(times) == \A i, j \in DOMAIN times : i < j => times[i] >= times[j]

\* A person by the address, however it is spelled.
Is(a, b) == a.box = b.box /\ a.domain = b.domain
IsMe(a) == \E me \in MyAddresses : Is(a, me)

\* The places (company, person, position) of a mail in the result.
Places(companies, mail) ==
    {p \in (DOMAIN companies) \X (1 .. MaxMails) \X (1 .. MaxMails) :
        LET senders == companies[p[1]].senders IN
        p[2] \in DOMAIN senders /\ p[3] \in DOMAIN senders[p[2]].mails
            /\ senders[p[2]].mails[p[3]] = mail}

PersonAt(companies, place) == companies[place[1]].senders[place[2]].address

\* A mail is shown once, with who sent it or, if that was me, with one of those
\* it went to besides me; if there are none it is not shown.
ShownOnce(companies, mail) ==
    LET partners == IF IsMe(mail.from) THEN {a \in Range(mail.to) : ~IsMe(a)} ELSE {mail.from}
        places   == Places(companies, mail)
    IN  IF partners = {} THEN places = {}
        ELSE \E p \in places :
                places = {p} /\ \E a \in partners : Is(PersonAt(companies, p), a)

PersonInOrder(group, domain) ==
    /\ group.address.domain = domain
    /\ ~IsMe(group.address)
    /\ Descending([i \in DOMAIN group.mails |-> group.mails[i].at])
    /\ group.latestAt = group.mails[1].at

CompaniesInOrder(companies) ==
    /\ Descending([c \in DOMAIN companies |-> companies[c].latestAt])
    /\ \A c, d \in DOMAIN companies : companies[c].domain = companies[d].domain => c = d
    /\ \A c \in DOMAIN companies :
         LET senders == companies[c].senders IN
         /\ Descending([s \in DOMAIN senders |-> senders[s].latestAt])
         /\ \A s \in DOMAIN senders : PersonInOrder(senders[s], companies[c].domain)
         /\ companies[c].count = Cardinality({m \in Range(mails) :
                                    \E p \in Places(companies, m) : p[1] = c})

\* Every mail exchanged with somebody else is shown once, under that person
\* and that person's company, however the addresses are spelled; the user is
\* never a correspondent; companies, people and mails come latest first, each
\* dated by its latest mail (group_gmail_by_company).
MailsAreGrouped ==
    \A companies \in {GroupByCompany(mails)} :
        CompaniesInOrder(companies) /\ \A m \in Range(mails) : ShownOnce(companies, m)

\* The index of a line among those that are not blank.
IndexOf(i) == Cardinality({j \in 1 .. i - 1 : ~Blank(lines[j])})

\* What was said in a line, behind the speaker if there is one.
SaidIn(line, utterance) ==
    IF utterance.speaker = Unknown THEN line
    ELSE SubSeq(line, (CHOOSE i \in DOMAIN line :
                            line[i] = ":" /\ \A j \in 1 .. i - 1 : line[j] # ":") + 1,
                Len(line))

\* A piece of the text is the quote, with other blanks and marks in it.
PieceOf(text, quote) ==
    \E first \in 1 .. Len(text) + 1, last \in 0 .. Len(text) :
        Normalize(SubSeq(text, first, last)) = Normalize(quote)

\* A quotation that says something.
Quotes == {quote \in Texts(2) : Normalize(quote) # <<>>}

\* A quotation of a pasted conversation that says something counts exactly if
\* it is, but for blanks and marks, a piece of what was said in the line it
\* names; lines are numbered by the full lines before them (to_utterances,
\* ground_evidence).  Of a document, here a line, likewise (is_quote_in).
QuotesAreOfTheirLine ==
    \A said \in {Utterances(lines)} :
        /\ Len(said) = Cardinality({i \in DOMAIN lines : ~Blank(lines[i])})
        /\ \A quote \in Quotes :
             /\ \A i \in DOMAIN lines : IsQuoteIn(lines[i], quote) = PieceOf(lines[i], quote)
             /\ \A index \in 0 .. MaxLines :
                  LET evidence == <<[utteranceIndex |-> index, quote |-> quote]>>
                      counts   == \E i \in DOMAIN lines :
                                    /\ ~Blank(lines[i])
                                    /\ IndexOf(i) = index
                                    /\ PieceOf(SaidIn(lines[i], said[index + 1]), quote)
                  IN  GroundEvidence(said, evidence) = IF counts THEN evidence ELSE <<>>
==============================================================================
