---------------------------- MODULE ReceiptMerging ----------------------------
(***************************************************************************)
(* One report for a message sent in several segments (dlr-merger.ts).      *)
(* sendSms() registers the ids a send got back; each receipt that names    *)
(* one of them fills its place, and the receipt that fills the last one    *)
(* reports the message.                                                    *)
(*                                                                         *)
(* An id is the base and the part it spells.  The SMSC takes a send's      *)
(* segments, answers all of them or fails some, and reports each segment   *)
(* at any time once it has it, again, and before it has answered them all. *)
(* Every send starts out: one that starts later is one whose segments take *)
(* longer.                                                                 *)
(***************************************************************************)
EXTENDS ExpiringGroups, FiniteSets

CONSTANTS
    Sends,          \* the sends the application makes with dlr: true
    Bases,          \* what their ids have in common, one of them a message
    SmsIds,         \* SmsIds[s]: the id the SMSC gives each segment, or NoId
    NoId            \* an id that is missing, or that no part ends

ASSUME SendsAssumption ==
    /\ IsFiniteSet(Bases)
    /\ NoId \notin [base : Bases, part : Nat]
    /\ SmsIds \in [Sends -> Seq([base : Bases, part : Nat] \cup {NoId})]
    /\ \A s \in Sends : SmsIds[s] # <<>>

VARIABLES
    groups,     \* DlrMerger.groups: what each base still collects
    spent,      \* DlrMerger.spent: the bases that are finished with
    sending,    \* where each send is
    over,       \* the session has ended
    reports,    \* history: the messageDlr events, in order
    reported,   \* history: the segments a final receipt came for since their send was accepted
    finished,   \* history: the last bases finished with: how long ago, and which others since
    givenUp     \* history: the bases that were closed without a report

vars == <<groups, spent, sending, over, reports, reported, finished, givenUp>>

Init ==
    /\ groups = empty /\ spent = empty
    /\ sending = [s \in Sends |-> "out"]
    /\ over = FALSE
    /\ reports = <<>>
    /\ reported = [s \in Sends |-> {}]
    /\ finished = <<>> /\ givenUp = {}

-----------------------------------------------------------------------------
(* The merger's operations, on its two stores and their history.           *)

merger == [groups |-> groups, spent |-> spent, finished |-> finished, givenUp |-> givenUp]

Become(m) ==
    /\ groups' = m.groups /\ spent' = m.spent
    /\ finished' = m.finished /\ givenUp' = m.givenUp

\* The memory the code promises: as many bases as the cap, each for the timeout.
Remember(fin, base) ==
    LET since(b) == fin[b].since \cup {base}
        kept == {b \in DOMAIN fin \ {base} : Cardinality(since(b)) < MaxGroups}
    IN  [b \in kept \cup {base} |->
            IF b = base THEN [ago |-> 0, since |-> {}] ELSE [ago |-> fin[b].ago, since |-> since(b)]]

close(m, base) ==
    LET kept == delete(m.spent, base)
        roomy == IF full(kept) THEN takeOldest(kept).left ELSE kept
    IN  [m EXCEPT !.groups = delete(@, base),
                  !.spent = set(roomy, base, TRUE),
                  !.finished = Remember(@, base)]

\* Groups already taken out of their store, closed one after the other.
GiveUp(m, taken) ==
    LET upTo[n \in 0 .. Len(taken.taken)] ==
            IF n = 0 THEN [m EXCEPT !.groups = taken.left]
            ELSE close(upTo[n - 1], taken.taken[n].key)
    IN  [upTo[Len(taken.taken)] EXCEPT !.givenUp = @ \cup keysOf(taken.taken)]

sweep(m) == GiveUp(m, takeExpired(m.groups))

\* Mutant: a full store takes one more.
dropOldestNever(m) == m

dropOldest(m) == IF full(m.groups) THEN GiveUp(m, takeOldest(m.groups)) ELSE m

\* Mutant: a base that is finished with is collected again.
openSpent(m, base, expected) ==
    LET fresh == [m EXCEPT !.spent = takeExpired(@).left]
        roomy == dropOldest(fresh)
    IN  IF has(fresh.groups, base)
        THEN [close(fresh, base) EXCEPT !.givenUp = @ \cup {base}]
        ELSE [roomy EXCEPT !.groups = set(@, base, [expected |-> expected, parts |-> <<>>]),
                           !.spent = delete(@, base)]

open(m, base, expected) ==
    LET fresh == [m EXCEPT !.spent = takeExpired(@).left]
        roomy == dropOldest(fresh)
    IN  IF has(fresh.groups, base) \/ has(fresh.spent, base)
        THEN [close(fresh, base) EXCEPT !.givenUp = @ \cup {base}]
        ELSE [roomy EXCEPT !.groups = set(@, base, [expected |-> expected, parts |-> <<>>])]

\* Mutant: ids are one message when they share their base.
oneMessageByBase(smsIds) ==
    /\ NoId \notin ToSet(smsIds)
    /\ Cardinality({id.base : id \in ToSet(smsIds)}) = 1

\* idNumbering(): ids that spell out the parts of one message, each once.
oneMessage(smsIds) ==
    /\ NoId \notin ToSet(smsIds)
    /\ Cardinality({id.base : id \in ToSet(smsIds)}) = 1
    /\ Cardinality({id.part : id \in ToSet(smsIds)}) = Len(smsIds)

\* The sends that expect a report, and those of them that are past it.
Numbered == {s \in Sends : Len(SmsIds[s]) >= 2 /\ oneMessage(SmsIds[s])}
settled(s) == SmsIds[s][1].base \in givenUp \cup {reports[n].base : n \in DOMAIN reports}

expect(m, smsIds) ==
    IF Len(smsIds) >= 2 /\ oneMessage(smsIds)
    THEN open(m, smsIds[1].base, {id.part : id \in ToSet(smsIds)})
    ELSE m

-----------------------------------------------------------------------------
(* The SMSC answers.                                                       *)

\* Every segment of a send is answered, refused or given up: only a send that
\* the SMSC took as a whole expects its receipts, in a session that has ended
\* like in any other.
Resolve(s) ==
    /\ sending[s] = "out"
    /\ \/ /\ sending' = [sending EXCEPT ![s] = "accepted"]
          /\ Become(expect(merger, SmsIds[s]))
       \/ /\ sending' = [sending EXCEPT ![s] = "failed"]
          /\ Become(merger)
    /\ UNCHANGED <<over, reports, reported>>

-----------------------------------------------------------------------------
(* The SMSC reports.                                                       *)

filled(group, part, dlr) ==
    [group EXCEPT !.parts =
        [p \in DOMAIN @ \cup {part} |-> IF p = part THEN dlr ELSE group.parts[p]]]

\* Mutant: a group waits for one part more than it expects.
FillOneMore(m, id, dlr) ==
    LET group == filled(get(m.groups, id.base), id.part, dlr)
    IN  IF Cardinality(DOMAIN group.parts) <= Cardinality(group.expected)
        THEN Become([m EXCEPT !.groups = amend(@, id.base, group)]) /\ UNCHANGED reports
        ELSE /\ Become(close(m, id.base))
             /\ reports' = Append(reports, [base |-> id.base, segments |-> group.parts])

\* The part an id names is filled, and the last one reports the message.
Fill(m, id, dlr) ==
    LET group == filled(get(m.groups, id.base), id.part, dlr)
    IN  IF Cardinality(DOMAIN group.parts) < Cardinality(group.expected)
        THEN Become([m EXCEPT !.groups = amend(@, id.base, group)]) /\ UNCHANGED reports
        ELSE /\ Become(close(m, id.base))
             /\ reports' = Append(reports, [base |-> id.base, segments |-> group.parts])

\* collect() past its early returns.
counts(m, id, dlr) ==
    /\ dlr = "final" /\ id # NoId
    /\ has(m.groups, id.base) /\ id.part \in get(m.groups, id.base).expected

Receipt(s, i, dlr) ==
    LET swept == sweep(merger)
        id == SmsIds[s][i]
    IN  /\ ~over
        /\ IF counts(swept, id, dlr) THEN Fill(swept, id, dlr)
           ELSE Become(swept) /\ UNCHANGED reports
        /\ reported' = [x \in Sends |->
                IF x \notin Numbered \/ sending[x] # "accepted" \/ settled(x)' THEN {}
                ELSE reported[x] \cup {n \in {i} : dlr = "final" /\ s = x}]
        /\ UNCHANGED <<sending, over>>

-----------------------------------------------------------------------------
Sweep ==
    /\ groups.sweeper
    /\ Become(sweep(merger))
    /\ UNCHANGED <<sending, over, reports, reported>>

SweepSpent ==
    /\ spent.sweeper
    /\ spent' = takeExpired(spent).left
    /\ UNCHANGED <<groups, sending, over, reports, reported, finished, givenUp>>

\* The session ends: clear(), and nothing is remembered.
End ==
    /\ ~over /\ over' = TRUE
    /\ groups' = takeAll(groups).left /\ spent' = takeAll(spent).left
    /\ finished' = <<>>
    /\ UNCHANGED <<sending, reports, reported, givenUp>>

\* The clock moves on, and the oldest of what the merger remembers is due.
Tick ==
    /\ groups' = tick(groups) /\ spent' = tick(spent)
    /\ finished' = [b \in {c \in DOMAIN finished : finished[c].ago + 1 < Timeout} |->
                        [finished[b] EXCEPT !.ago = @ + 1]]
    /\ UNCHANGED <<sending, over, reports, reported, givenUp>>

Next ==
    \/ \E s \in Sends : Resolve(s)
    \/ \E s \in Sends : \E i \in DOMAIN SmsIds[s], dlr \in {"intermediate", "final"} : Receipt(s, i, dlr)
    \/ Sweep
    \/ SweepSpent
    \/ End
    \/ Tick

Spec == Init /\ [][Next]_vars

-----------------------------------------------------------------------------
\* Types, and the stores' bounds: neither holds more bases than the cap, and
\* no base is collected and finished with at once.
TypeOK ==
    /\ \A s \in Sends : sending[s] \in {"out", "accepted", "failed"} /\ reported[s] \subseteq DOMAIN SmsIds[s]
    /\ over \in BOOLEAN
    /\ Len(groups.entries) <= MaxGroups /\ Len(spent.entries) <= MaxGroups
    /\ Cardinality(DOMAIN finished) <= MaxGroups /\ givenUp \subseteq Bases
    /\ keysOf(groups.entries) \cap keysOf(spent.entries) = {}

\* A report has a receipt for every segment of a send that was taken as a
\* whole, and each of them is final.
ReportsAreWhole ==
    \A n \in DOMAIN reports : \E s \in Sends :
        /\ sending[s] = "accepted"
        /\ Len(SmsIds[s]) = Cardinality(DOMAIN reports[n].segments)
        /\ ToSet(SmsIds[s]) = {[base |-> reports[n].base, part |-> p] : p \in DOMAIN reports[n].segments}
        /\ \A p \in DOMAIN reports[n].segments : reports[n].segments[p] = "final"

\* A base is merged at most once for as long as it can be remembered: a
\* straggler and a reused id never make a second report of it.
MergedOnce ==
    [][reports' # reports => Last(reports').base \notin DOMAIN finished]_vars

\* A long message whose every segment has a final receipt, none of them earlier than
\* the answer to its last segment, is reported, unless its base was given up for the
\* cap, the clock or another message (dlr-merger.ts collect).
FiresOnceAllReported ==
    \A s \in Numbered : sending[s] = "accepted" /\ ~over /\ reported[s] = DOMAIN SmsIds[s] => settled(s)

=============================================================================
