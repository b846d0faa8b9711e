------------------------------ MODULE Reassembly ------------------------------
(***************************************************************************)
(* The segments of incomplete messages (reassembly.ts).  Each is answered  *)
(* as it lands, so the peer will not send it again: what the store gives   *)
(* up afterwards is traffic gone, which onLost has to tell.                *)
(*                                                                         *)
(* A segment is the key its addresses and reference make, its numbering    *)
(* and the octets it holds; what it says is left out.  The peer may send   *)
(* any of its segments at any time, and again.                             *)
(***************************************************************************)
EXTENDS ExpiringGroups, FiniteSets, Functions

CONSTANTS
    Segments,   \* what the peer may send: [key, part, total, octets]
    MaxOctets,  \* options.maxOctets
    MaxIds      \* bound: how many groups are ever opened

ASSUME SegmentsAssumption ==
    /\ IsFiniteSet(Segments)
    /\ \A s \in Segments : s.part \in Nat /\ s.total \in Nat /\ s.octets \in Nat \ {0}
ASSUME OctetsAssumption == MaxOctets \in Nat
ASSUME IdsAssumption == MaxIds \in Nat \ {0}

Ids == 1 .. MaxIds

VARIABLES
    groups,     \* Reassembler.groups
    issued,     \* how many ids newId() has given out
    account     \* history: what the peer was answered for each id, and what became of it

vars == <<groups, issued, account>>

Init ==
    /\ groups = empty
    /\ issued = 0
    /\ account = [id \in Ids |-> [total |-> 0, answered |-> {}, refused |-> {}, fate |-> "held", told |-> 0]]

-----------------------------------------------------------------------------
(* What becomes of a group, in its account.                                *)

idsOf(es) == {es[i].group.smsId : i \in DOMAIN es}
partsOf(es, id) == DOMAIN (CHOOSE e \in ToSet(es) : e.group.smsId = id).group.parts

\* Mutant: the refused segment is counted with the answered ones.
lostAsStored(acc, es, refused) ==
    [id \in Ids |-> IF id \in idsOf(es)
                    THEN [acc[id] EXCEPT !.fate = "lost", !.told = Cardinality(partsOf(es, id))]
                    ELSE acc[id]]

\* Each lost group is told of once, with the segments the peer was answered
\* for: the refused one is in its group but stays with the peer.
lost(acc, es, refused) ==
    [id \in Ids |-> IF id \in idsOf(es)
                    THEN [acc[id] EXCEPT
                            !.fate = "lost",
                            !.told = Cardinality(partsOf(es, id)) - (IF id = refused THEN 1 ELSE 0)]
                    ELSE acc[id]]

answered(acc, id, segment) ==
    [acc EXCEPT ![id].answered = @ \cup {segment.part}, ![id].total = segment.total]

-----------------------------------------------------------------------------
\* Mutant: a segment joins a group whatever total the group has.
placeableByNumber(store, segment) ==
    segment.part >= 1 /\ segment.total >= 1 /\ segment.part <= segment.total

placeable(store, segment) ==
    /\ segment.part >= 1 /\ segment.total >= 1 /\ segment.part <= segment.total
    /\ has(store, segment.key) => get(store, segment.key).total = segment.total

\* Mutant: one group more than the bound.
openOneMore(store, segment) ==
    LET room == IF Len(store.entries) > MaxGroups THEN takeOldest(store)
                ELSE [left |-> store, taken |-> <<>>]
        group == [smsId |-> issued + 1, total |-> segment.total, parts |-> <<>>]
    IN  [left |-> set(room.left, segment.key, group), taken |-> room.taken]

open(store, segment) ==
    LET room == IF full(store) THEN takeOldest(store) ELSE [left |-> store, taken |-> <<>>]
        group == [smsId |-> issued + 1, total |-> segment.total, parts |-> <<>>]
    IN  [left |-> set(room.left, segment.key, group), taken |-> room.taken]

retainedOctets(group) == SumFunction(group.parts)

\* The group a segment joins, once there is one.
Joined(store, segment) ==
    LET group == get(store, segment.key)
    IN  [group EXCEPT !.parts =
            [p \in DOMAIN @ \cup {segment.part} |->
                IF p = segment.part THEN segment.octets ELSE group.parts[p]]]

\* trim(): what the segment's own arrival put over the octet cap goes, oldest
\* first, and with it perhaps the group it joined: the segment is refused then.
Trim(store, segment, acc) ==
    LET group == get(store, segment.key)
        trimmed == weigh(store, segment.key, retainedOctets(group), MaxOctets)
        survived == has(trimmed.left, segment.key)
    IN  /\ groups' = trimmed.left
        /\ account' = IF survived
                      THEN answered(lost(acc, trimmed.taken, 0), group.smsId, segment)
                      ELSE [lost(acc, trimmed.taken, group.smsId)
                                EXCEPT ![group.smsId].refused = {segment.part}]

Complete(store, segment, acc) ==
    LET id == get(store, segment.key).smsId
    IN  /\ groups' = delete(store, segment.key)
        /\ account' = [answered(acc, id, segment) EXCEPT ![id].fate = "whole"]

\* collect() of a segment that can be placed.
Place(segment, swept) ==
    LET opens == ~has(swept.left, segment.key)
        opened == IF opens THEN open(swept.left, segment) ELSE [left |-> swept.left, taken |-> <<>>]
        group == Joined(opened.left, segment)
        store == amend(opened.left, segment.key, group)
        acc == lost(account, swept.taken \o opened.taken, 0)
    IN  /\ opens => issued < MaxIds
        /\ issued' = IF opens THEN issued + 1 ELSE issued
        /\ IF Cardinality(DOMAIN group.parts) < group.total
           THEN Trim(store, segment, acc)
           ELSE Complete(store, segment, acc)

Collect(segment) ==
    LET swept == takeExpired(groups)
    IN  \/ /\ placeable(swept.left, segment)
           /\ Place(segment, swept)
        \/ /\ ~placeable(swept.left, segment)
           /\ groups' = swept.left
           /\ account' = lost(account, swept.taken, 0)
           /\ UNCHANGED issued

Sweep ==
    LET swept == takeExpired(groups)
    IN  /\ groups.sweeper
        /\ groups' = swept.left
        /\ account' = lost(account, swept.taken, 0)
        /\ UNCHANGED issued

\* Mutant: the groups go with the link, untold.
ClearForgets == groups' = takeAll(groups).left /\ UNCHANGED <<issued, account>>

\* The link is gone, and the answers with it.
Clear ==
    LET all == takeAll(groups)
    IN  /\ groups' = all.left
        /\ account' = lost(account, all.taken, 0)
        /\ UNCHANGED issued

Tick == groups' = tick(groups) /\ UNCHANGED <<issued, account>>

Next ==
    \/ \E segment \in Segments : Collect(segment)
    \/ Sweep
    \/ Clear
    \/ Tick

\* Time passes, and an interval that runs fires.
Spec == Init /\ [][Next]_vars /\ WF_vars(Tick) /\ WF_vars(Sweep)

-----------------------------------------------------------------------------
Entries == ToSet(groups.entries)
Held == {e.group.smsId : e \in Entries}

\* Types, and the two bounds of the store: neither groups nor octets go past
\* their cap, whatever the segments' order.
TypeOK ==
    /\ issued \in 0 .. MaxIds
    /\ Len(groups.entries) <= MaxGroups /\ Cardinality(keysOf(groups.entries)) = Len(groups.entries)
    /\ groups.total \in 0 .. MaxOctets
    /\ \A e \in Entries : e.left \in 0 .. Timeout /\ e.group.smsId \in 1 .. issued
    /\ \A id \in Ids : account[id].fate \in {"held", "whole", "lost"} /\ account[id].told \in Nat

\* The weight kept step by step is the octets of the segments that are there,
\* so that the cap never shrinks for good.
WeightIsWhatIsHeld ==
    /\ \A e \in Entries : e.weight = retainedOctets(e.group)
    /\ groups.total = weightOf(groups.entries)

\* A group that is given up is counted with the parts the peer takes for delivered:
\* those it was answered for and was not refused since.  The part whose arrival pushes
\* its own group out is refused, and stays with the peer also if it had come before
\* (reassembly.ts trim).
LossIsTold ==
    \A id \in Ids : account[id].fate = "lost" =>
        account[id].told = Cardinality(account[id].answered \ account[id].refused)

\* Every answered segment is still held in its group, or went with it into the
\* message or the loss that was told.
AnsweredIsHeldOrSettled ==
    \A id \in Ids :
        IF id \in Held
        THEN /\ account[id].fate = "held"
             /\ \E e \in Entries : e.group.smsId = id /\ DOMAIN e.group.parts = account[id].answered
        ELSE account[id].fate = "held" => account[id].answered = {}

\* A message that is handed on has all of its segments, and each was answered.
WholeIsWhole ==
    \A id \in Ids : account[id].fate = "whole" => account[id].answered = 1 .. account[id].total

\* No group waits for ever: its message completes, or its loss is told.
EveryGroupEnds == \A id \in Ids : id \in Held ~> id \notin Held

=============================================================================
