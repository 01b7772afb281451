------------------------------ MODULE CoapList ------------------------------
(***************************************************************************)
(* CoAP.pInteractions as coap_interaction.c keeps it: a linked list of     *)
(* blocks of the heap, changed statement by statement, with the absolute   *)
(* time an interaction sleeps until.  CoAP_doWork, the application, its    *)
(* callbacks and the packets that arrive change it.                        *)
(*                                                                         *)
(* What a handler decides about the interaction it serves is a choice; the *)
(* clock stays in the first half of its range, where timeAfter is >=.      *)
(***************************************************************************)
EXTENDS Integers, Sequences, FiniteSets, SequencesExt

CONSTANTS
    Blocks,      \* where malloc may place an interaction
    NULL,
    Waits,       \* the seconds an interaction is put to sleep for
    Callbacks,   \* what RespCB may do; "renew" clears, then starts
    Interrupts,  \* whether packets are handled in an interrupt
    MaxClock     \* bound on rtc1HzCnt

ASSUME BlocksAssumption    == IsFiniteSet(Blocks) /\ NULL \notin Blocks
ASSUME WaitsAssumption     == Waits \subseteq Nat
ASSUME CallbacksAssumption == Callbacks \subseteq {"start", "clear", "renew"}
ASSUME InterruptsAssumption == Interrupts \in BOOLEAN
ASSUME ClockAssumption     == MaxClock \in Nat

VARIABLES
    head,        \* CoAP.pInteractions
    next,        \* CoAP_Interaction_t.next
    live,        \* the blocks that are allocated
    sleepUntil,  \* CoAP_Interaction_t.SleepUntil
    clock,       \* rtc1HzCnt
    serving,     \* pIA of the running CoAP_doWork, NULL between two calls
    kept,        \* the interaction stayed at the head of the list last time
    todo,        \* the statements the program has yet to execute
    order        \* history: the list when an operation on it was last complete

vars == <<head, next, live, sleepUntil, clock, serving, kept, todo, order>>

Pointers == Blocks \cup {NULL}

\* The blocks from the head on; more than there are means a cycle.
Walk ==
    LET from[n \in 0 .. Cardinality(Blocks)] ==
            [a \in Pointers |-> IF n = 0 \/ a = NULL THEN <<>>
                                ELSE <<a>> \o from[n - 1][next[a]]]
    IN  from[Cardinality(Blocks)][head]

Ends == \A k \in {Len(Walk)} \ {0} : next[Walk[k]] = NULL

\* Mutant: an interaction is served in the second it sleeps until.
timeAfterStrict(a, b) == a > b

timeAfter(a, b) == a >= b

-----------------------------------------------------------------------------
(* Statements.  Each is a record [do, at]; "at" is the block it is about.   *)

Do(what, block) == [do |-> what, at |-> block]

AppendOf(b) == <<Do("last", b)>>
DeleteOf(b) == <<Do("unlink", b)>>
ClearOf     == <<Do("detach", NULL)>>

\* Mutant: an interaction that waits stays where it is.
MoveOfNone(b) == <<>>

MoveOf(b) == <<Do("takeOut", b), Do("last", b)>>

Quiet == todo = <<>>
Now(what) == todo # <<>> /\ todo[1].do = what
This      == todo[1].at

\* The rest of the program after this statement, with what it leads to.
Continue(more) == todo' = more \o Tail(todo)

\* An operation on the list is complete.
Complete == order' = Walk'

heapUnchanged == UNCHANGED <<live, sleepUntil, clock, serving, kept>>

\* Mutant: the head of the list is not corrected.
SkipHeadKept(b) ==
    IF head = b THEN UNCHANGED <<head, next>>
    ELSE /\ \E p \in ToSet(Walk) :
                next[p] = b /\ next' = [next EXCEPT ![p] = next[b]]
         /\ UNCHANGED head

\* The predecessor's link, or the head, skips the block.
Skip(b) ==
    IF head = b THEN head' = next[b] /\ UNCHANGED next
    ELSE /\ \E p \in ToSet(Walk) :
                next[p] = b /\ next' = [next EXCEPT ![p] = next[b]]
         /\ UNCHANGED head

\* CoAP_UnlinkInteractionFromList; a block that is not in the list is left alone.
Unlink ==
    /\ Now("unlink")
    /\ IF This \in ToSet(Walk)
       THEN Skip(This) /\ Continue(<<Do("free", This)>>) /\ Complete
       ELSE Continue(<<>>) /\ UNCHANGED <<head, next, order>>
    /\ heapUnchanged

Free ==
    /\ Now("free")
    /\ live' = live \ {This}
    /\ Continue(<<>>)
    /\ UNCHANGED <<head, next, sleepUntil, clock, serving, kept, order>>

\* CoAP_MoveInteractionToListEnd takes the block out and appends it.
TakeOut ==
    /\ Now("takeOut")
    /\ IF This \in ToSet(Walk) THEN Skip(This) ELSE UNCHANGED <<head, next>>
    /\ Continue(<<>>)
    /\ UNCHANGED order /\ heapUnchanged

EndOfWalk == IF head = NULL THEN NULL ELSE Last(Walk)

\* CoAP_AppendInteractionToList: the last block is found, linked to the new one,
\* and that one's own link is cleared.
FindLast ==
    /\ Now("last")
    /\ Continue(<<Do("link", <<EndOfWalk, This>>)>>)
    /\ UNCHANGED <<head, next, order>> /\ heapUnchanged

Link ==
    /\ Now("link")
    /\ IF This[1] = NULL THEN head' = This[2] /\ UNCHANGED next
       ELSE next' = [next EXCEPT ![This[1]] = This[2]] /\ UNCHANGED head
    /\ Continue(<<Do("terminate", This[2])>>)
    /\ UNCHANGED order /\ heapUnchanged

Terminate ==
    /\ Now("terminate")
    /\ next' = [next EXCEPT ![This] = NULL]
    /\ Continue(<<>>)
    /\ UNCHANGED head /\ Complete /\ heapUnchanged

\* CoAP_ClearInteractions
Detach ==
    /\ Now("detach")
    /\ head' = NULL
    /\ Continue([k \in DOMAIN Walk |-> Do("free", Walk[k])])
    /\ UNCHANGED next /\ Complete /\ heapUnchanged

\* CoAP_AllocNewInteraction, then AppendInteractionToList; in a callback, or
\* when the application asks.
StartInteraction ==
    /\ Now("start")
    /\ IF live = Blocks
       THEN Continue(<<>>) /\ UNCHANGED <<live, next, sleepUntil>>
       ELSE \E b \in Blocks \ live :
            /\ live' = live \cup {b}
            /\ next' = [next EXCEPT ![b] = NULL]
            /\ sleepUntil' = [sleepUntil EXCEPT ![b] = 0]
            /\ Continue(AppendOf(b))
    /\ UNCHANGED <<head, clock, serving, kept, order>>

Statement ==
    Unlink \/ Free \/ TakeOut \/ FindLast \/ Link \/ Terminate \/ Detach \/ StartInteraction

-----------------------------------------------------------------------------
(* CoAP_doWork *)

listUnchanged == UNCHANGED <<head, next, live, clock, order>>

Asleep(b) == timeAfter(sleepUntil[b], clock)

Return == serving' = NULL /\ kept' = FALSE

\* An interaction that sleeps goes to the end of the list.
WorkRotate ==
    /\ Quiet /\ serving = NULL /\ head # NULL /\ Asleep(head)
    /\ todo' = MoveOf(head)
    /\ UNCHANGED <<sleepUntil, serving>> /\ kept' = FALSE /\ listUnchanged

WorkBegin ==
    /\ Quiet /\ serving = NULL /\ head # NULL /\ ~Asleep(head)
    /\ serving' = head
    /\ UNCHANGED <<todo, sleepUntil, kept>> /\ listUnchanged

\* A message was sent again: the ACK timeout that starts makes the next call
\* move the interaction.
WorkKeep ==
    /\ Quiet /\ serving # NULL /\ ~kept
    /\ serving' = NULL /\ kept' = TRUE
    /\ UNCHANGED <<todo, sleepUntil>> /\ listUnchanged

\* What a handler may do before its interaction goes on: a resource that
\* notifies its observers starts one.
HandlerDoes == {<<>>, <<Do("start", NULL)>>}

WorkEnqueue ==
    /\ Quiet /\ serving # NULL
    /\ \/ UNCHANGED sleepUntil
       \/ \E s \in Waits : sleepUntil' = [sleepUntil EXCEPT ![serving] = clock + s]
    /\ \E before \in HandlerDoes : todo' = before \o MoveOf(serving)
    /\ Return /\ listUnchanged

\* A cancellation aborts the notification that is pending, if one is (b is in the
\* list then); its answer is sent, or could not be.
WorkCancel ==
    /\ Quiet /\ serving # NULL
    /\ \E before \in HandlerDoes, b \in Blocks \ {serving} :
        \/ todo' = before \o (DeleteOf(b) \o MoveOf(serving))
        \/ todo' = before \o (DeleteOf(b) \o DeleteOf(serving))
    /\ UNCHANGED sleepUntil /\ Return /\ listUnchanged

\* The interaction is over: RespCB is called, then CoAP_DeleteInteraction.
CallbackDoes(what) ==
    (IF what # "start" THEN ClearOf ELSE <<>>)
        \o (IF what # "clear" THEN <<Do("start", NULL)>> ELSE <<>>)

WorkDelete ==
    /\ Quiet /\ serving # NULL
    /\ \/ todo' = DeleteOf(serving)
       \/ \E what \in Callbacks : todo' = CallbackDoes(what) \o DeleteOf(serving)
    /\ UNCHANGED sleepUntil /\ Return /\ listUnchanged

-----------------------------------------------------------------------------
(* The application, the network and the clock *)

BetweenCalls == Quiet /\ serving = NULL

ApplicationCalls ==
    /\ BetweenCalls
    /\ \E what \in {"start", "clear"} : todo' = CallbackDoes(what)
    /\ UNCHANGED <<sleepUntil, serving, kept>> /\ listUnchanged

\* CoAP_HandleIncomingPacket as a whole, between two calls or as an interrupt
\* of anything; one that meets a cycle would not return.
MayArrive == (Interrupts \/ BetweenCalls) /\ Ends

PacketStarts ==
    /\ MayArrive
    /\ \E b \in Blocks \ live :
        /\ live' = live \cup {b}
        /\ sleepUntil' = [sleepUntil EXCEPT ![b] = 0]
        /\ head' = IF head = NULL THEN b ELSE head
        /\ next' = [a \in Blocks |-> IF a = b THEN NULL
                                     ELSE IF a = EndOfWalk THEN b ELSE next[a]]
    /\ Complete
    /\ UNCHANGED <<clock, serving, kept, todo>>

PacketWakes ==
    /\ MayArrive
    /\ \E b \in ToSet(Walk) : sleepUntil' = [sleepUntil EXCEPT ![b] = 0]
    /\ UNCHANGED <<serving, kept, todo>> /\ listUnchanged

Tick ==
    /\ clock < MaxClock
    /\ clock' = clock + 1
    /\ UNCHANGED <<head, next, live, sleepUntil, serving, kept, todo, order>>

-----------------------------------------------------------------------------

Init ==
    /\ head = NULL
    /\ next = [b \in Blocks |-> NULL]
    /\ live = {}
    /\ sleepUntil = [b \in Blocks |-> 0]
    /\ clock = 0
    /\ serving = NULL /\ kept = FALSE
    /\ todo = <<>>
    /\ order = <<>>

doWork ==
    WorkRotate \/ WorkBegin \/ WorkKeep \/ WorkEnqueue \/ WorkCancel \/ WorkDelete

Next ==
    \/ Statement
    \/ doWork
    \/ ApplicationCalls
    \/ PacketStarts \/ PacketWakes
    \/ Tick

Spec == Init /\ [][Next]_vars

\* The program runs on, and calls CoAP_doWork again and again ("must be called
\* regularly") whatever else it calls in between.
FairSpec == Spec /\ WF_vars(Statement) /\ SF_vars(doWork)

-----------------------------------------------------------------------------

\* Between two calls the list holds exactly the interactions that exist: none
\* was lost on the way to its end, none is linked that was freed, and the list
\* ends ("can be called from irq since more expensive work is done in
\* CoAP_doWork loop", coap_main.c:36, says so of every interleaving).
NoInteractionLost == BetweenCalls => ToSet(Walk) = live /\ Ends

\* The seconds an interaction still sleeps.
SleepLeft(b) == IF sleepUntil[b] >= clock THEN sleepUntil[b] - clock ELSE -1

Queue == [k \in DOMAIN order |-> [ia |-> order[k], sleepLeft |-> SleepLeft(order[k])]]

Schedule == INSTANCE CoapSchedule WITH Interactions <- Blocks, list <- Queue

\* The pointers and absolute times implement the queue the other modules are
\* written with: whatever a callback or a handler does before, the interaction
\* that is moved, put to sleep or deleted at the end of a call is still the head
\* and awake; besides, a cancellation removes one interaction from behind it.
ImplementsSchedule == Schedule!Spec

\* Interactions take turns: each gets to the head of the list.
InteractionsTakeTurns ==
    \A b \in Blocks : b \in live ~> head = b \/ b \notin live
=============================================================================
