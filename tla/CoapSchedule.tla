---------------------------- MODULE CoapSchedule ----------------------------
(***************************************************************************)
(* The list of interactions as the rest of the stack is meant to see it: a *)
(* queue whose head is served when it is not asleep and is then kept,      *)
(* moved to the end or deleted; serving it may abort one that waits behind *)
(* it.  CoapInteractions is written in these terms; CoapList shows that    *)
(* the pointers and the clock implement them.                              *)
(***************************************************************************)
EXTENDS Integers, Sequences, SequencesExt

CONSTANT Interactions

\* Of the interactions in the order of the list: seconds left to sleep, -1 when
\* awake.
VARIABLE list

Entry == [ia : Interactions, sleepLeft : Nat \cup {-1}]

Listed == {list[k].ia : k \in DOMAIN list}

\* An interaction with SleepUntil = 0 is awake, except while the clock is 0.
JustWoken == {-1, 0}

Append1(ia) ==
    /\ ia \notin Listed
    /\ \E s \in JustWoken : list' = Append(list, [ia |-> ia, sleepLeft |-> s])

Wakeup(k) == \E s \in JustWoken : list' = [list EXCEPT ![k].sleepLeft = s]

\* What serving the head does to the list.
SetSleep   == /\ list[1].sleepLeft = -1
              /\ list' \in Seq(Entry) /\ Len(list') = Len(list)
              /\ list' = [list EXCEPT ![1].sleepLeft = list'[1].sleepLeft]
MoveToEnd  == list' = Append(Tail(list), Head(list))
DeleteHead == list[1].sleepLeft = -1 /\ list' = Tail(list)

\* The cancellation that is served aborts a notification behind it.
DeleteBehind(k) == list[1].sleepLeft = -1 /\ list' = RemoveAt(list, k)

Clear == list' = <<>>

Tick == list' = [k \in DOMAIN list |->
            [list[k] EXCEPT !.sleepLeft = IF @ = -1 THEN -1 ELSE @ - 1]]

Init == list = <<>>

Next ==
    \/ UNCHANGED list
    \/ \E ia \in Interactions : Append1(ia)
    \/ \E k \in DOMAIN list : Wakeup(k)
    \/ list # <<>> /\ (SetSleep \/ MoveToEnd \/ DeleteHead)
    \/ \E k \in 2 .. Len(list) : DeleteBehind(k)
    \/ Clear
    \/ Tick

Spec == Init /\ [][Next]_list
=============================================================================
