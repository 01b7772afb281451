# Formal models of lobaro-coap

lobaro-coap is a CoAP stack (RFC 7252, with Observe, RFC 7641, and blockwise
transfer, RFC 7959) for microcontrollers. It is single threaded. The platform
hands in datagrams (`CoAP_HandleIncomingPacket`), calls `CoAP_doWork`
regularly and supplies three callbacks: a clock, a transmit function and a
random number. Everything the stack does for a peer or for the application is
an *interaction*: a heap block in one linked list, `CoAP.pInteractions`, with
a role (server, notification, client) and a state.

This directory holds TLA+ models of the stack, TLC configurations that check
them on small instances and TLAPS proofs for all instances.

## 1. Inventory

| Part | Source (under `src/src/`) | State | Operations | What makes it correct |
|---|---|---|---|---|
| Dispatcher | `coap_main.c` 37-221 | none of its own | classify a datagram, answer pings, unknown URIs and critical options, find the interaction an ACK, RST or response belongs to | only the right interaction is touched, in a state that can take it |
| Scheduler | `coap_main.c` 684-725 | the order of the list | serve the head, or rotate it when asleep | every interaction is served again and ends |
| Server interactions | `coap_main.c` 360-528, `coap_interaction.c` 401-446 | state, request, answer, what was acknowledged, timers | duplicate detection, multicast leisure, handler, postponing, piggybacked and separate answers, retransmission | one interaction per request; the answer has the token, type and ID that fit the request |
| Client interactions | `coap_main.c` 247-340, 621-681, `coap_interaction.c` 240-293 | state, request, response, timers, `RespCB` | start, send, wait, retransmit, give up, report | one callback per request, with the response to it, in the end |
| Notifications and observers | `coap_interaction.c` 295-399, 452-537, `coap_main.c` 530-619, `coap_resource.c` 357-420 | `pListObservers`, `UpdateCnt`, notifications in the list | register, cancel, notify all, send, renew, retransmit, remove an observer | no observer twice, no two notifications at a time, the last version arrives |
| Interaction list, IDs, clock | `coap_interaction.c`, `coap_message.c`, `coap.h` | the list, `MId`, `currToken`, absolute times | append, unlink, search, sleep, ACK timeout | no interaction lost or linked twice; waits end when they should |
| Datagram coding | `coap_message.c`, `coap_options.c`, `option-types/coap_option_uri.c` | a byte buffer, a sorted list of options | append, pack, parse, compute the size | reading gives what was written, writing stays in the buffer |
| Blockwise transfer | `option-types/coap_option_blockwise.c` | none; block number, size and More travel in an option | set the payload of an answer | the blocks add up to the body, and the last one says so |
| Resources | `coap_resource.c`, `option-types/coap_option_uri.c` | the list of resources | create from a URI string, look up, notify | a request finds the resource created under its path, however either side spells it |
| Observer persistence | `coap_resource.c` 38-169 | pages of non-volatile memory | save, load | what is loaded after a restart is what was saved |
| Sockets, endpoints, packets | `interface/network/` | a table of five sockets | allocate, compare addresses | |
| ETag, Content-Format, Accept | `option-types/` | none | read or write an option | |
| Glue, memory, debug | `liblobaro_coap.c`, `coap_mem.c`, `diagnostic.c`, `interface/debug/` | configuration | initialise, log, allocate | |

The dispatcher and the scheduler share the list; the handlers of the three
roles change the interaction they are called for, the list, the observers of a
resource and the two ID counters, and call back into the application (resource
handler, notifier, `RespCB`). What is hard to test is how these meet: datagrams
that are lost, repeated or late, in any state of an interaction; a resource
that changes, or an observer that registers again, while a notification is
under way; memory that runs out or a send that fails in the middle; timers
against answers; an interrupt or a callback in the middle of a change of the
list; a loss of power between two saves; two endpoints whose retries meet; and
the borders of the byte coding. `PROJECT.json` lists these
hazards one by one, each at its line of code and with the properties that watch
it.

## 2. The modules and the code

    CoapMessages                     messages, IDs and tokens that wrap
      CoapInteractions               the state; the list, timers, sending, observers
        CoapServer  CoapNotify  CoapClient      one role each
          CoapStack                  dispatcher, scheduler, clock, Next, fairness
            CoapProperties           what one endpoint promises
              CoapRequests           (abstract) what becomes of a request
              MCCoapStack            instances for TLC
              CoapStack_proofs       proofs: types and NULL-freedom
                CoapJobs_proofs      proofs: what happens once only, CoapRequests
                                     is implemented, observers
                  CoapEndpoint_proofs  proofs: answers and responses fit; one
                                     step, seen from the network
            CoapExchange             two CoapStacks and a network between them
              CoapCalls              (abstract) a call, its answers, its return
              MCCoapExchange         instance for TLC
              CoapExchange_proofs    proofs: CoapCalls is implemented, ACKs
    CoapList                         the list with its pointers and clock
      CoapSchedule                   (abstract) the queue CoapInteractions uses
      CoapList_proofs                proofs: nothing is lost, the queue it is
    CoapWire                         bytes of a datagram, the option list
      CoapWire_proofs                proofs: reading back, cutting off, room
      CoapBlockwise                  Block2 transfer over these datagrams
        MCCoapBlockwise              instance for TLC
        CoapBlockwise_proofs         proofs: bodies and datagrams of a transfer
      CoapNV                         resources, saving and loading of observers
        MCCoapNV                     instance for TLC
        CoapNV_proofs                proofs: a URI finds its resource, a saved observer
                                     is read back and attached again

**State of `CoapStack`.** `queue` is `CoAP.pInteractions`, head first; an
element is a record of the fields of `CoAP_Interaction_t` that decide anything.
`mid`, `tok`, `updateCnt`, `observers` are the variables of the same name in C
(`MId`, `currToken`, `UpdateCnt`, `pListObservers`). Absolute times became the
seconds that are left (`sleepLeft`, `ackLeft`) or have passed (`reqAge`), which
is what `timeAfter` and the age checks compare. `leaked` counts interactions
that are allocated but in no list. `loop` is a running
`CoAP_StartNotifyInteractions`: it calls the notifier once per observer, so it
takes one step per observer, and nothing else runs until it has ended. Three
variables are not in the code: `calls`, what the application has seen of each
of its requests; `told`, which observers were sent the current version of a
resource; `tx`, what the last step handed to the transmit function.

**Actions.** A datagram, a call of `CoAP_doWork`, a call by the application and
a second of the clock are one action each, and every action is a whole
handler, up to its return: sending, changing and re-linking the interaction
together. `doWork` serves only the head of the list, by one disjunct for each
path through the handler of its role. A transmit function may fail
(`SendResults`), the heap may be full (`MaxInteractions`), a handler or
notifier may do any of the things the API lets it do (`HandlerOutcomes`,
`HandlerTypes`, `NotifierOutcomes`). Which datagrams arrive, how often and in
which order is not restricted: `Datagrams` is a set, and any member may arrive
at any time. That covers loss, duplication, delay and reordering without a
channel.

**Data.** Options and payloads are left out of `CoapStack`, except the Observe
value and the *version* of the resource a representation shows. They are the
subject of `CoapWire`, where a datagram is a sequence of bytes: option deltas
and lengths with their extension bytes, the sorted list an option is inserted
in, the size computed before packing, and parsing with each of its error
returns. A parse that would read beyond the datagram has a result of its own
(`OVERREAD`). `CoapBlockwise` puts the Block2 functions on top: a handler sets
its payload with `CoAP_SetPayload` or with `CoAP_SetPayload_CheckBlockOpt`, and
a client, which is not in the repository, asks for one block after the other.

**The list.** `CoapStack` treats the list as a sequence and a handler as one
step. `CoapList` looks below that: heap blocks, `head` and `next` pointers,
`SleepUntil` and the clock as absolute times, and a program `todo` of
statements, each a step (`Unlink`, `Free`, `TakeOut`, `FindLast`, `Link`,
`Terminate`, `Detach`, `StartInteraction`). What a handler decides (keep, move,
put to sleep, delete) is a choice; `RespCB` may start a request, clear the list,
or both, before its interaction is deleted; a resource handler may notify
observers, which starts an interaction (`HandlerDoes`), and a cancellation aborts
a notification anywhere in the list before its own interaction is moved or
deleted (`WorkCancel`). Packets arrive between two calls of
the stack, or, with `Interrupts = TRUE`, between any two statements. The mapping
to `CoapSchedule` takes the list when an operation on it was last complete and
turns absolute times into the seconds left.

**Two endpoints.** `CoapExchange` instantiates `CoapStack` twice, with variables
of its own for each side and constants for what concerns observers. The network
is a bag of datagrams: `Lose` takes a copy out, `Delivered` hands one over and
may leave a copy behind, and nothing keeps their order. `CoapRequests` and
`CoapCalls` say what this comes to for the application, without messages and
timers: the stages of a request, and which calls may return what.

**Persistence.** `CoapNV` uses the option lists, packing and parsing of
`CoapWire`. `tempPage` is the buffer `TempPage`, which keeps what an earlier
save left in it; `flash` is the page the platform wrote; `Behind` is what lies
in memory after it. `Restart` keeps `flash` only. `CoAP_Init` creates the
resource `/.well-known/core` (its path abbreviated, `CoreUri`), which has no
notifier and takes no observers. The application then creates its own resources
again, from URI strings that are split into options by `UriOptionsFromString`,
and `NVloadObservers` runs as one step, record by
record as in the code. `saved` remembers the observers of the last save.

Definitions called *Mutant* in their comment are not part of a model. They are
likely mistakes, one for each property, listed in `PROJECT.json`; with such a
mistake in the place of the true definition the property fails.

## 3. The runs

Every run checks deadlock, except `blocks`, where a transfer ends.

| Run | Asks | Properties |
|---|---|---|
| `server` | requests that are repeated, reset, multicast, not allowed, malformed; handlers with every outcome; failing sends; two interactions fill the heap | `TypeOK`, `NoNullMessage`, `OneInteractionPerRequest`, `AnswerFitsRequest`, `NoPiggybackAfterEmptyAck` |
| `client` | three requests, two at a time; ACKs, resets, piggybacked, separate, repeated and foreign responses; failing sends; clearing | `NoNullMessage`, `OneCallbackPerRequest`, `ResponseFitsRequest`, `ImplementsRequests` |
| `observe` | two endpoints register, cancel and reset while the resource changes; notifiers that fail or return an error code, failing sends | `OneObserverPerEndpoint`, `OneNotificationPerObserver` |
| `observe_live` | does the last version reach every observer? (fair) | `StaleNotificationIsMarked`, `ObserversAreInformed` |
| `requests_live` | does every request end, as client and as server? (fair) | `RequestsAreReported`, `RequestsAreFinished` |
| `blocks` | bodies of nine sizes, every block size, option lists of up to three options | `ReadsWhatWasWritten`, `BufferHoldsDatagram`, `CutDatagramInventsNothing`, `BlocksFormTheBody`, `TransferReachesTheEnd`, `RequestedBlockIsSent` |
| `list` | the pointers under callbacks, handlers, cancellations, packets between two calls and the clock (fair) | `NoInteractionLost`, `ImplementsSchedule`, `InteractionsTakeTurns` |
| `exchange` | two calls of one side to the other over a network that loses, reorders and duplicates | `AcknowledgedAnswerIsReported`, `ImplementsCalls` |
| `nv` | resources created, observed, saved up to three times, restarts in between, loaded | `RestoredWasSaved`, `FirstObserversReturn`, `UriFindsItsResource` |
| `bug_ack`, `bug_nv`, `bug_irq` | statements of the comments that the code does not keep | one each, violated; see section 5 |

`ImplementsRequests`, `ImplementsSchedule` and `ImplementsCalls` are
refinements: the specification of the abstract module, under the mapping given
where it is instantiated, as a property of the detailed one. The first says
that no request is answered before it was asked, that an answer which arrived
is reported and not overtaken by a timeout, and that a step concerns one
request unless all of them end. The second, that whatever the pointers go
through, `doWork` moves, puts to sleep or deletes the head of the list only, and
only when it is awake, but for the one interaction that a cancellation, while it
is served, removes from behind it (`DeleteBehind`). These are the operations
`CoapInteractions` has on its sequence (`EnqueueHead`, `DeleteHead`, the removal
in `CoapServer`'s `Answer`), where a handler performs them in one step. The third,
that a call returns only if the other side made an answer for that very call;
an answer may be made twice, since duplicates are handled anew (the hold time
is 0 seconds), and a call may fail although it was answered.
`AcknowledgedAnswerIsReported` is the other direction: when the server has an
ACK for its separate answer, the application that asked has it or is about to.

`NoNullMessage` says of each interaction that it has what its handler reads
without asking. It excepts the answer 4.05 to a method that is not allowed, whose
allocation the code does not check: `ServeNullAnswer` is what happens when memory
runs out there, and `AnswerIsPresent`, without the exception, is violated
(section 5). The other properties of `server` hold with this step too.

**Bounds and why they are enough.** `MidMod` (65536 in the code) and
`TokMod` (256) are 2 or 3, so message IDs wrap within a few steps and coincide
between the roles. Two interactions
(three in `observe` and `observe_live`) are enough for every pair of interactions that a
search could confuse, and for a full heap. `MAX_RETRANSMIT` is 1, and 0 in
`observe`, so a timer expires with and without attempts left;
the waits are one or two seconds, in the order the code has them. `ConEvery` is
2 instead of 20, so that notifications of both types occur. `MaxVersion` is 2
in the observe runs: a notification can be one and two versions old. `MaxRequests` bounds the calls
of the application. The option numbers and lengths of `blocks` lie
at 12, 13, 268 and 269, where the coding changes, the body sizes at zero, at
one block, one byte beyond, and at several blocks. `MAX_PAYLOAD_SIZE` is 32
there, its smallest legal value, so that blocks larger and smaller than it are
asked for; the first request may be for a later block, of any of these sizes.
`TransferReachesTheEnd` allows a refusal when the client asked for a later block
larger than the server's maximum: the server then keeps the block number while
it takes a smaller size, and the client finds a block it did not ask for. The
constants of an instance that the code fixes otherwise
(`PostponeWait`, `PostponeMax`, `ClientMaxWait`, `Leisure`) are one or two
seconds.

`list` has three heap blocks (one served, one before and one behind it, and a
full heap), waits of one and two seconds and a clock up to 4. `exchange` has
two calls, two different datagrams under way and one duplication, so that a
late answer to the first call, an ACK that was lost and a request that arrives
twice meet the second call; `MAX_RETRANSMIT` is 0, retransmission being
covered by `client` and `server`. The IDs of the two sides start at 0 and 2 of 8, so
they do not meet (section 5 says what happens otherwise). `nv` has two
observers and a page of 60 bytes, which holds both records with room behind
them; tokens of no and of seven bytes, the longest that are saved whole;
paths of which one is the beginning of another; URI strings with delimiters
at both ends, in a row and behind the question mark; and one that asks for
`/.well-known/core`.

The runs of invariants and of step properties use `VIEW StackView`, which drops
`told` and `tx` (no guard and no invariant reads them; a step property sees
`tx'`), and the symmetry of the observers' memory blocks. The liveness runs use
neither. `exchange` leaves out what the two sides sent last in the same way
(`VIEW ExchangeView`).

## 4. Fairness

`FairSpec` adds weak fairness of three actions and of nothing else.
`doWork`: the porting guide requires the main loop to call it regularly.
`StartNotifyInteractions`: a C loop that has begun runs to its end. `Tick`: the
clock goes on. No datagram ever has to arrive, no acknowledgement, no call of
the application. Weak fairness is enough because each of the three stays
enabled until it is taken or until there is nothing left to do.

`observe_live` needs besides, as constants of the run: sends and notifiers
succeed, memory suffices, the application does not clear all interactions, an
endpoint keeps its token. Without one of the first three the code gives up on
that version; section 5 says what happens without the last.

`FairSpec` of `CoapList` adds weak fairness of `Statement` (a program that has
begun a function goes on) and strong fairness of `doWork`: it is called again
and again ("must be called regularly", `coap_main.c`), but only between two
other calls of the application, so it is not enabled all the time.

## 5. Where the code does not do what it says

Each is a run that TLC ends with a counterexample.

- `bug_ack`: an ACK or RST for a client request is noted in `ResConfirmState`,
  but `CheckReqStatus` reads `ReqConfirmState`. A request the server has
  acknowledged or reset is retransmitted all the same. In this run
  (`ConfirmSpec`) the confirmation arrives only after the request was sent.
- `bug_nv`: a second observer of a resource is saved without the path, the
  record leads to no resource, and its options, not freed, end the loading.
- `bug_irq`: `CoAP_HandleIncomingPacket` "can be called from irq", but an
  interrupt between two statements of `CoAP_AppendInteractionToList` has its
  interaction cut off. In the run the application starts an interaction on an
  empty list (`coap_interaction.c` 127, 128); an append to a list that is not
  empty has the same gap (135, 137). While an interaction is moved to the end of a list of
  two, there is a cycle for one statement; an interrupt then would not return
  (the model lets no packet arrive there).

Five more configurations violate a statement of the documentation, or one that
the code relies on, in the same way, on the models of the runs above:

- `bug_send.cfg` (`MCCoapStack`, `FailureIsReported`): a request whose first
  send fails is deleted without a call of `RespCB`, which `PortingGuide.md`
  promises when the message "fails to be sent". `CoapRequests` has the stage
  `dropped` for it.
- `bug_link.cfg` (`MCCoapStack`, `ObserverLinkIsValid`): registering again frees
  the observer a waiting notification points to; its renewal hands that pointer
  to the notifier.
- `bug_code4.cfg` (`MCCoapStack`, `ErrorCodeRemovesObserver`): after an error
  code from a notifier the observer is looked up with the endpoint of a NULL
  interaction; it stays, and the new interaction leaks.
  `NotifierReturnsErrorCode` has both outcomes of the NULL read: a fault (then
  the device restarts) or an endpoint that matches nobody.
- `bug_null.cfg` (`MCCoapStack`, `AnswerIsPresent`): without memory for the 4.05,
  `SendResp` and `CoAP_SendMsg` read through a NULL `pRespMsg`. `ServeNullAnswer`
  has the outcomes of these reads: a fault (then the device restarts), or, where
  address 0 can be read, an interaction that goes on without an answer.
- `bug_block.cfg` (`MCCoapBlockwise`, `RequestedBlockIsSent`): `CoAP_SetPayload`,
  the function the headers recommend, answers a request for a later block with
  block 0. `CoAP_SetPayload_CheckBlockOpt` does it right and passes `blocks`.

Not runs, but seen with the same models:

- With `Memory = {TRUE, FALSE}` in `blocks`, `ReadsWhatWasWritten` fails in two
  steps: when an option that belongs in front finds no memory, the head of the
  list is overwritten by NULL and the options before are lost.
- With two tokens per endpoint in `observe_live`, `ObserversAreInformed` fails:
  a notification under way when its endpoint registers again keeps the old
  token in its retransmissions and renewals.
- With `ServerSeed = 0` in `exchange` the message IDs of the two sides meet, and
  `AcknowledgedAnswerIsReported` fails: the ACK for a separate answer is taken
  for another interaction of the server whose *request* has that ID.
- With `MaxObservers = 3`, `PageSize = 120` and `MaxSaves = 2` in `nv`,
  `RestoredWasSaved` fails: from the third record on, records are written behind
  the place where loading looks for them, loading reads what an earlier save left
  there, and attaches an observer nobody registered.
- With a token of eight bytes in `nv`, `RestoredWasSaved` fails: eight bytes of
  the nine of the token's structure are saved.
- In `CoapList`, a callback that clears and then starts a request ("renew") may
  get the block of the interaction it is called for; the caller then deletes the
  new request. The list stays intact, which is all `list` asks.
- The reserved block size 7 "must lead to 4.00 Bad Request" according to the
  comment in `coap_option_blockwise.c`; its callers treat it as no option.

## 6. What is proved

TLAPS proves, for every value of the constants (any endpoints and resources,
any moduli, waits, datagrams, heap and number of requests):

| Theorem | Module | Says |
|---|---|---|
| `TypeCorrect` | `CoapStack_proofs` | `Spec => []TypeOK` |
| `MessagesPresent` | `CoapStack_proofs` | `Spec => []NoNullMessage`: no handler reads through a NULL message, resource or callback, but for the answer 4.05 |
| `RequestsHandledOnce` | `CoapJobs_proofs` | `Spec => []OneInteractionPerRequest` |
| `ObserversNotifiedOnce` | `CoapJobs_proofs` | `Spec => []OneNotificationPerObserver` |
| `CallbacksOnce` | `CoapJobs_proofs` | `Spec => []OneCallbackPerRequest` |
| `AnswersFitRequests` | `CoapEndpoint_proofs` | `Spec => []AnswerFitsRequest` |
| `ResponsesFitRequests` | `CoapEndpoint_proofs` | `Spec => []ResponseFitsRequest` |
| `SeparateAfterEmptyAck` | `CoapEndpoint_proofs` | `Spec => NoPiggybackAfterEmptyAck`, a property of steps |
| `RequestsImplemented` | `CoapJobs_proofs` | `Spec => ImplementsRequests`, a refinement |
| `ObserversOnce` | `CoapJobs_proofs` | `Spec => []OneObserverPerEndpoint` |
| `StaleIsMarked` | `CoapJobs_proofs` | `[]StaleNotificationIsMarked`, under hypotheses |
| `NothingLost` | `CoapList_proofs` | `Spec => []NoInteractionLost` without interrupts |
| `ScheduleImplemented` | `CoapList_proofs` | `Spec => ImplementsSchedule` without interrupts, a refinement |
| `CallsImplemented` | `CoapExchange_proofs` | `Spec => ImplementsCalls`, a refinement, under hypotheses |
| `AcknowledgedIsReported` | `CoapExchange_proofs` | `[]AcknowledgedAnswerIsReported`, under hypotheses |
| `MessageReadBack` | `CoapWire_proofs` | every message is read back as it was written |
| `CutDatagram` | `CoapWire_proofs` | a datagram cut off behind its token is refused or has the first of its options |
| `BufferFits` | `CoapWire_proofs` | a datagram is as long as the size computed for it |
| `BlocksFormTheBodyAlways` | `CoapBlockwise_proofs` | `Spec => []BlocksFormTheBody` |
| `BufferHoldsDatagramAlways` | `CoapBlockwise_proofs` | `Spec => []BufferHoldsDatagram` |
| `CutDatagramInventsNothingAlways` | `CoapBlockwise_proofs` | `Spec => []CutDatagramInventsNothing` |
| `ReadsWhatWasWrittenAlways` | `CoapBlockwise_proofs` | `Spec => []ReadsWhatWasWritten`, when memory suffices |
| `TransferReachesTheEndAlways` | `CoapBlockwise_proofs` | `Spec => []TransferReachesTheEnd`, for handlers that check Block2 |
| `RequestedBlockIsSentAlways` | `CoapBlockwise_proofs` | `Spec => []RequestedBlockIsSent`, for handlers that check Block2 |
| `UriFinds` | `CoapNV_proofs` | `Spec => []UriFindsItsResource` |
| `RecordReadBack` | `CoapNV_proofs` | the record of an observer is read back, whatever follows it |
| `LoadInventsNothing` | `CoapNV_proofs` | `Spec /\ []AtMostTwo => []RestoredWasSaved`, for what a record can hold |
| `LoadReturnsFirst` | `CoapNV_proofs` | `Spec /\ []AtMostTwo => []FirstObserversReturn`, for what a record can hold and memory for two |
| `MemoryForTwo` | `CoapNV_proofs` | `Spec => []AtMostTwo`, with memory for two observers |

**Types.** The first two share the invariant `TypeInv == TypeOK /\
NoNullMessage /\ LoopOK`. Neither is inductive alone: that the answer being
retransmitted is a message depends on the role and state of its interaction,
and that the loop over the observers has a next one is `LoopOK`. Every step
that changes the list puts a well-formed interaction in the place of one, and
the proof has a lemma per action and one per helper (`SendRespType`,
`RetransmitType`, ...). What `NoNullMessage` leaves out, the answer 4.05 (section
3), is left out of the theorem as well: a server interaction that waits without
an answer is one whose method its resource does not allow.

**Once only.** The next three rest on `JobsInv == TypeInv /\ Distinct(queue) /\
CallsOK(queue, calls)`. `SameJob` says when two interactions work on the same
thing, `Distinct` that no two do. What an interaction works on never changes
(`Keeps`), so a step either keeps the list up to removal and rotation, which
`AppendJobs`, `TailJobs` and `WithoutJobs` treat once and for all, or it
appends one after a search of the whole list that found nothing (`FirstExists`:
a search of a non-empty set of positions finds one). `CallsOK` ties the open
requests of the application to the client interactions: it is what makes the
callback single, and it needs `Distinct`, because deleting one of two
interactions of a request would leave the other behind.

**Answers.** `AnswersInv == TypeInv /\ AllFit(queue)`. `ServerFits` adds to
what is promised what makes it inductive: a piggybacked answer may wait in an
interaction only until the empty ACK went out, and an interaction that sent one
is of a CON request and of a method its resource allows, so that the answer
4.05, which is always piggybacked, cannot follow. `ClientFits`: a client
interaction has a response exactly when it is to be reported.

**Requests.** `CoapRequests` is implemented under the mapping `Stage`, which
reads off the list how far each request is. The proof says for every action
which positions of the list hold a client in which state (`At`), and gets from
`JobsInv` that no second interaction of the request is there to disagree.

**Observers.** `ObserversInv` says that a list of observers has no endpoint and
no memory block twice (`Apart`) and that the lists share no block (`Disjoint`);
the second is needed because the block of a new observer is chosen among those
in no list. `StaleIsMarked` is about every notification under way while the
resource changes: it shows the current version, is marked for renewal, or the
running loop has yet to come to its observer (`Current`). That needs that each
notification belongs to an observer that is still listed under its token
(`Informs`). It does not hold for every application, and each hypothesis is a
behaviour of the code:

- `NotifiersAnswer` (notifiers fill the notification): a notifier that fails
  has its observer removed but an older notification stays, and an error code
  leaves the renewal undone;
- `TokenPerObservation` (a client uses one token for each observation): a
  cancellation aborts the first notification with its token, of whatever
  resource, and a second token leaves the old notification behind;
- `[][~NotifyOutOfMemory]_vars`: out of memory at one observer, the loop skips
  the remaining ones.

`observe_live`, which checks the property, satisfies all three.

**The list.** The walk along the pointers is a recursive function, so the first
part of `CoapList_proofs` shows that it returns the list that is linked, by
well-foundedness of `<` on the numbers. `ListInv == TypeList /\ (Steady \/
Detaching \/ Joining)` then says for each statement that may come
next which list is linked, what is in the hands of the running function and
what it still has to do. Three shapes suffice because a callback or a packet
comes only between two functions, hence the hypothesis `Interrupts = FALSE`;
`bug_irq` shows what happens with `TRUE`. What is left to do behind a callback or
a handler (`AfterStart`, `AfterList`) is nothing, to move the head, to delete the
interaction that was served, which is the head if it is still linked, or to
delete another one before either (`Aborts`). That other one may be anywhere
behind the head, so `Unlink` is shown for every place. From the same invariant each
statement is a stutter or one step of `CoapSchedule`.

**Two endpoints.** `CoapEndpoint_proofs` says what a single step of an endpoint
in one role may send and make of its interactions, in terms of that endpoint
only. `CoapExchange_proofs` instantiates it for either side and adds
`CallsInv`: the token of a call is its number; the wire and the server hold
only tokens that were drawn; a response on the wire, or in the asker's list, has
a token in `answered`. Two hypotheses are needed, and TLC finds
`ImplementsCalls` violated without each of them (two calls with `TokMod = 2`;
with `MaxInteractions = 1`):

- `MaxRequests < TokMod`: when `currToken` wraps, a late answer to an old call
  is reported for the new one;
- `MaxRequests <= MaxInteractions`: `CoAP_StartNewRequest` draws the token before
  it allocates, so calls that find no memory use up tokens.

The asker asks by GET, which every resource of the server allows; `CallsInv` says
so of each request the server holds, hence no 4.05 is due there, and no step reads
through NULL for want of memory for it.

`AcknowledgedIsReported` has `AckInv` besides: an ACK on the wire, or one that
has arrived at the server, bears an ID the server drew, and the answer with
that ID belongs to a call that is reported or about to be. The chain is long:
the asker sends an ACK only for a CON whose token leads to an interaction of
its own, which was sent before (nobody has seen the token of a request that is
not sent); that CON's ID is of one call only, whichever interactions of the
server hold it; and the ACK finds the interaction by that ID only. The last
step needs that the IDs of the two sides do not meet, because
`CoAP_FindInteractionByMessageIdAndEp` compares the request's ID as well as the
answer's: `MaxRequests <= ServerSeed`, and `[][sMid' >= sMid]_vars`, the
server's counter does not wrap. TLC finds the property violated with
`ServerSeed = 0`, and with `MidMod = 4`, where it wraps; `exchange` satisfies
both hypotheses.

**Datagrams.** `CoapWire` computes with recursive functions: `FlattenSeq` and
`FoldLeft` of the community modules, and the loop of the parser. Such a function
is a CHOOSE until it is shown to exist, so `CoapWire_proofs` begins with that
(`Recursion`, `FoldExists`, `LoopExists`: the approximations up to n agree, and
are put together). What the function computes then follows by induction on a
set of numbers (`UpTo`), which needs no theorem with an operator as parameter.
`PackIsCoded` says that the packed bytes of a list are the encodings of its
options one after the other, each a function of the option and the number before
it (`Coded`); `ParseCoded` that the parser, standing in front of such an
encoding, reads that option and stands behind it; `ParsePacked` takes this along
the list. The borders 12, 13, 268, 269 are in `FieldReadBack`. For a datagram
that is cut off, `ParseTail` stops the same walk inside an option: whatever bytes
lie behind the datagram, the length that is left is too short for the value, or
negative, and the parser refuses. `NeededIsPacked` compares the two places that
decide how many extension bytes an option has.

**Blockwise.** `IInv == Types /\ Lists /\ Wires /\ Progress /\
BlocksFormTheBody`. `BlocksFormTheBody` alone is not inductive: the client keeps
a block because it has the number and the size it asked for, and that this block
begins where its bytes end is `Progress`; that the answer is the server's answer
to this question is `Wires`; and that either survives the wire needs the lists to
be sorted (`Lists`), for `MessageReadBack`. The value of Block2 (number, More,
size in one to three bytes) is read back for every number below 16 * 65536
(`BlockBack`). The hypotheses are two behaviours of the code that section 5
lists. `Memory \subseteq {TRUE}`: without memory an option is lost together with
those before it. `Setters \subseteq {"CheckBlockOpt"}`: a handler that uses
`CoAP_SetPayload` answers any block with block 0. `ReadsWhatWasWritten` needs the
first, `TransferReachesTheEnd` and `RequestedBlockIsSent` the second; the other
three theorems hold whatever the memory and the handlers.

**Resources.** The reader of URI strings goes through a string character by
character; `Parts`, `Path` and `Query` say what a string means without one. They
meet in `StringIsRead`: after n characters the list holds the parts that have
ended, and the reader the one that has not (`PartsStep`). `TableInv` says which
resource has the path of which string the application offered; no step changes
that (`TableStep`), and two paths are equal as lists of options only when they
are equal as strings (`OptsOfInjective`), so `FindResourceByUri` finds the first
resource of that path and no other (`TableFinds`).

**Persistence.** `RecordReadBack` has two halves. Inserting the options of an
observer one by one gives them in the order of `Layout`; and `MessageReadBack`'s
lemmas say that what was packed is parsed again, up to the marker, whatever
bytes follow. So every record `IsReadAs` a list that `Restores` its observer and
its path (or, behind the first of a resource, no path). `NVInv` says what the
page is: the records of `saved`, one behind the other, then erased bytes
(`Keeps`), and that `saved` and `resources` are tables of the application's
paths. Saving establishes it for up to two records, because only there the
place of a record (`RecordStart`) is the end of the one before. The loop that
loads is a function on its own states: the proof shows that its domain is closed
under a turn and that the unread bytes shrink (`Leaves`), so that it has a value
at each state (`Loads`), and then follows it record by record: nothing, one or
two. It stops at the first record that has no path or no memory, or behind the
last one, where the list that is read finds no resource. `LoadKeeps` concludes
that every observer attached is one of `saved` under the same path, and that the
first one of each path is. Both theorems have `[]AtMostTwo` as a hypothesis.
`MemoryForTwo` proves it from the bound on memory: each list that is read gives
an observer to one resource at most (`LoadedOneMore`), so loading makes no more
observers than there was memory for (`LoadFits`), and a registration at most one
(`CountOne`). `SavedObserversReturn` puts the three together.

**Assumptions.** The proofs use what the modules assume of their constants by
name, and nothing else: for one endpoint `MidModAssumption`,
`TokModAssumption`, `MaxVersionAssumption`, `ResAssumption`, `TimeAssumption`,
`BoundAssumption`, `SeedAssumption`, `HandlerTypesAssumption`,
`RequestTypesAssumption` and `DatagramAssumption`; for the list
`BlocksAssumption`, `WaitsAssumption` and `CallbacksAssumption`; for two
endpoints `ExchangeAssumption`, `IdsAssumption`, `ResourceAssumption`,
`BoundsAssumption`, `SecondsAssumption` and `TypesAssumption`, from which
`AskerConstants` and `ServerConstants` derive what `CoapStack` assumes of either
side; for transfers `MaxPayloadAssumption`, `BodyAssumption`, `AsksAssumption`,
`OptionsAssumption` and `MemoryAssumption`; for resources
`ApplicationAssumption`, `ClientsAssumption`, `UriAssumption`, `PageAssumption`
and `BoundsAssumption`. The two theorems of loading have two hypotheses besides,
`Recordable` and `AtMostTwo`. `Recordable`: the paths of the resources and the URIs of
the clients have parts that an option can hold, each resource has a path, tokens
have up to seven bytes, and what lies behind the page ends the reading.
`AtMostTwo`: there are at most two observers at a time. Section 5 has what TLC
finds with a third observer and with a token of eight bytes; `nv` satisfies
both. The theorems of `CoapWire_proofs` are about the operators and assume
nothing. TLC evaluates each of the assumptions in the runs of `MCCoapStack`,
`CoapList`, `MCCoapExchange`, `MCCoapBlockwise` and `MCCoapNV`.

**Only model-checked.** `ObserversAreInformed`, `RequestsAreReported`,
`RequestsAreFinished` and `InteractionsTakeTurns`: liveness is beyond the
prover. All other properties of the passing runs are stated by a theorem.

## 7. What is not modelled

Sockets (one table of five) and the comparison of addresses: an endpoint is a
model value, or a byte where it is saved. The ETag, Content-Format and Accept
options, which no part of the stack reads. The text of `/.well-known/core`.
Uri-query search, for handlers only. Block1 (no code in the stack uses it) and
the ownership of the payload buffer. Logging and the byte pool. The wrap of the
32 bit clock and the half range in which `timeAfter` is no longer `>=`. Saving
more than `TempPage` holds, since what lies behind it in memory is unknown. The
allocation of single messages and options, except where section 5 names it. In
`CoapStack` a send through a NULL answer (`ServeNullAnswer`) is a fault or has one
of two outcomes, not sent, or sent and taken for no CON: bytes read at address 0
are not modelled, nor is what a datagram made of them would do to a peer. All
interactions use one socket; interrupts and callbacks that call
back into the stack are in `CoapList` only, where handlers are abstract.

## 8. Plan

Done, in this order: messages, interactions, the three roles, their
composition, safety, liveness; datagrams and blockwise transfer; the list with
its pointers; persistence; two endpoints; the three refinements; the theorems
of section 6, of the interaction core, then of datagrams, transfers and
resources. The interaction core came first because every guarantee to peers
and to the application depends on it. Next:

1. An abstract observe specification for `CoapExchange`: the version a client
   has seen ends at the last one.
2. `timeAfter` at a small width, across the wrap of the clock.
3. The table of sockets and its limit.

## 9. Running

    tlc -workers 2 -config server.cfg MCCoapStack.tla
    tlc -workers 2 -config blocks.cfg MCCoapBlockwise.tla
    tlc -workers 2 -config list.cfg CoapList.tla
    tlc -workers 2 -config exchange.cfg MCCoapExchange.tla
    tlc -workers 2 -config nv.cfg MCCoapNV.tla
    tlapm CoapStack_proofs.tla

and likewise for the other `MC` modules, configurations and `_proofs` modules.
`CoapExchange_proofs` takes about ten minutes, the others one to five.
