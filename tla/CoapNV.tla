------------------------------- MODULE CoapNV -------------------------------
(***************************************************************************)
(* The resource table and the persistence of observers (coap_resource.c):  *)
(* CoAP_NVsaveObservers packs every observer into a page of non-volatile   *)
(* memory as a list of options, and after a restart CoAP_NVloadObservers   *)
(* parses that page and attaches what it finds to the resources.           *)
(*                                                                         *)
(* Endpoints and socket handles are one byte, as the value of an option;   *)
(* lists, packing and parsing are those of CoapWire.                       *)
(***************************************************************************)
EXTENDS CoapWire

CONSTANTS
    Application,   \* the calls of CoAP_CreateResource, in order:
                   \* <<[Uri, methods, notifier: does it have one?]>>
    Clients,       \* who registers: [Ep, socketHandle, Token], two bytes and a
                   \* sequence of up to 8 bytes
    Uris,          \* what they register for, as strings: sequences of bytes
    MaxObservers,  \* the heap holds that many observers
    PageSize,      \* sizeof(TempPage); a save that needs more is not modelled
    MaxSaves,      \* saves in a behaviour
    Behind         \* what lies in memory behind the page; no option, ends a parse

ASSUME ApplicationAssumption ==
    Application \in Seq([Uri : Seq(Byte), methods : SUBSET STRING, notifier : BOOLEAN])
ASSUME PageAssumption == PageSize \in Nat /\ Behind \in Seq(Byte)
ASSUME ClientsAssumption ==
    \A client \in Clients : /\ client.Ep \in Byte /\ client.socketHandle \in Byte
                            /\ client.Token \in Seq(Byte) /\ Len(client.Token) <= 8
ASSUME UriAssumption == Uris \subseteq Seq(Byte)
ASSUME BoundsAssumption == MaxObservers \in Nat /\ MaxSaves \in Nat

VARIABLES
    resources,  \* pResList: <<[uri, notifier, observers]>>
    created,    \* how many calls of Application have returned
    tempPage,   \* the static buffer TempPage
    flash,      \* the page the application's WriteBuf_fn wrote, which a restart keeps
    phase,      \* "boot", "loaded" until the table changes, "run"
    saved,      \* history: the resources when they were last saved
    saves       \* the number of saves

vars == <<resources, created, tempPage, flash, phase, saved, saves>>

OPT_NUM_URI_HOST == 3
OPT_NUM_OBSERVE  == 6
OPT_NUM_URI_PORT == 7
OPT_NUM_URI_QUERY == 15
OPT_NUM_LOBARO_TOKEN_SAVE == 350

Observer == [Ep : Byte, socketHandle : Byte, Token : Seq(Byte), pOptList : Seq(Option)]
Resource == [uri : Seq(Option), notifier : BOOLEAN, observers : Seq(Observer)]

-----------------------------------------------------------------------------
(* URI strings become options: parts between delimiters, no empty ones. *)

Slash == 47
Space == 32
Question == 63
Ampersand == 38

WithPart(s) ==
    IF s.part = <<>> THEN s
    ELSE [s EXCEPT !.part = <<>>,
                   !.list = AppendOptionToList(@, Opt(s.number, s.part), TRUE)]

\* Mutant: the delimiters of the path split the query too.
UriReadAlike(s, char) ==
    IF s.number = OPT_NUM_URI_PATH /\ char = Question
    THEN [WithPart(s) EXCEPT !.number = OPT_NUM_URI_QUERY]
    ELSE IF char \in {Slash, Space, Ampersand} THEN WithPart(s)
    ELSE [s EXCEPT !.part = Append(@, char)]

\* One character further; "?" ends the path, and then only "&" delimits.
UriRead(s, char) ==
    IF s.number = OPT_NUM_URI_PATH /\ char = Question
    THEN [WithPart(s) EXCEPT !.number = OPT_NUM_URI_QUERY]
    ELSE IF char \in (IF s.number = OPT_NUM_URI_PATH THEN {Slash, Space} ELSE {Ampersand})
    THEN WithPart(s)
    ELSE [s EXCEPT !.part = Append(@, char)]

UriOptionsFromString(string) ==
    WithPart(FoldLeft(UriRead, [list |-> <<>>, part |-> <<>>, number |-> OPT_NUM_URI_PATH],
                      string)).list

-----------------------------------------------------------------------------
(* The table of resources *)

\* "/.well-known/core", abbreviated.
CoreUri == <<Slash, 46, Slash, 99>>

NewResource(string, notifier) ==
    [uri |-> UriOptionsFromString(string), notifier |-> notifier, observers |-> <<>>]

WellKnown == NewResource(CoreUri, FALSE)

\* The first resource whose path is the path among the options.
FindResourceByUri(table, options) ==
    LET matches == {k \in DOMAIN table : UriOptionsAreEqual(table[k].uri, options)}
    IN  {k \in matches : \A j \in matches : k <= j}

NumObservers(table) == Len(FlattenSeq([k \in DOMAIN table |-> table[k].observers]))

\* A resource that allows no method is refused.
CreateResource ==
    /\ phase = "boot" /\ created < Len(Application)
    /\ created' = created + 1
    /\ LET call == Application[created + 1] IN
       resources' = IF call.methods = {} THEN resources
                    ELSE Append(resources, NewResource(call.Uri, call.notifier))
    /\ UNCHANGED <<tempPage, flash, phase, saved, saves>>

Running == phase \in {"loaded", "run"}

serving == UNCHANGED <<created, tempPage, flash, saved, saves>>

\* Whatever its token.
SameObserver(o, p) == o.Ep = p.Ep /\ o.socketHandle = p.socketHandle

\* The old registration of the endpoint leaves the list.
OthersThan(o, observers) ==
    FlattenSeq([j \in DOMAIN observers |->
        IF SameObserver(o, observers[j]) THEN <<>> ELSE << observers[j] >>])

HandleObservationInReq(client, options) ==
    LET o == [Ep |-> client.Ep, socketHandle |-> client.socketHandle, Token |-> client.Token,
              pOptList |-> <<Opt(OPT_NUM_OBSERVE, <<>>)>>
                             \o OptionsByNumber(options, OPT_NUM_URI_QUERY)]
    IN  /\ Running /\ NumObservers(resources) < MaxObservers
        /\ \E k \in FindResourceByUri(resources, options) :
            /\ resources[k].notifier
            /\ resources' = [resources EXCEPT ![k].observers =
                               Append(OthersThan(o, @), o)]
        /\ phase' = "run"
        /\ serving

\* After a cancellation or a reset.
RemoveObserver(k, j) ==
    /\ Running
    /\ resources' = [resources EXCEPT ![k].observers = RemoveAt(@, j)]
    /\ phase' = "run"
    /\ serving

-----------------------------------------------------------------------------
(* CoAP_NVsaveObservers *)

\* struct CoAP_Token_t: the length, then room for eight bytes.
TokenStruct(token) == <<Len(token)>> \o token \o [i \in 1 .. 8 - Len(token) |-> 0]

\* Mutant: the length byte is not counted.
SavedTokenShort(token) == SubSeq(TokenStruct(token), 1, 7)

\* Eight bytes of the nine.
SavedToken(token) == SubSeq(TokenStruct(token), 1, 8)

ObserverRecord(o, path) ==
    LET options == <<Opt(OPT_NUM_URI_HOST, <<o.Ep>>), Opt(OPT_NUM_URI_PORT, <<o.socketHandle>>)>>
                     \o path \o o.pOptList
                     \o <<Opt(OPT_NUM_LOBARO_TOKEN_SAVE, SavedToken(o.Token))>>
        sorted  == FoldLeft(LAMBDA list, opt : AppendOptionToList(list, opt, TRUE), <<>>, options)
    IN  Append(PackOptionsFromList(sorted), OPTION_PAYLOAD_MARKER)

\* Mutant: the path is encoded once, not once for each resource.
RecordsPathOnce(table) ==
    LET observed == SelectInSeq(table, LAMBDA r : r.observers # <<>>) IN
    FlattenSeq([k \in DOMAIN table |->
        [j \in DOMAIN table[k].observers |->
            ObserverRecord(table[k].observers[j],
                           IF k = observed /\ j = 1 THEN table[k].uri ELSE <<>>)]])

\* The path goes with the first observer of a resource only.
Records(table) ==
    FlattenSeq([k \in DOMAIN table |->
        [j \in DOMAIN table[k].observers |->
            ObserverRecord(table[k].observers[j], IF j = 1 THEN table[k].uri ELSE <<>>)]])

\* The bytes of the first n records.
TotalBytes(records, n) == Len(FlattenSeq(SubSeq(records, 1, n)))

\* Where each record is written: the pointer moves on by the total so far, not
\* by the record.
RecordStart(records) ==
    LET start[k \in DOMAIN records] ==
            IF k = 1 THEN 0 ELSE start[k - 1] + TotalBytes(records, k - 1)
    IN  start

PageFilled(records) ==
    LET start == RecordStart(records) IN
    [i \in 1 .. PageSize |->
        LET here == {k \in DOMAIN records : i > start[k] /\ i <= start[k] + Len(records[k])}
        IN  IF here = {} THEN tempPage[i]
            ELSE LET k == CHOOSE k \in here : TRUE IN records[k][i - start[k]]]

FitsPage(records) ==
    \A k \in DOMAIN records : RecordStart(records)[k] + Len(records[k]) <= PageSize

\* The platform erases the page and writes as many bytes as it is told.
FlashWritten(page, n) == [i \in 1 .. PageSize |-> IF i <= n THEN page[i] ELSE 255]

NVsaveObservers ==
    \E records \in {Records(resources)} :
        /\ Running /\ FitsPage(records) /\ saves < MaxSaves
        /\ \E page \in {PageFilled(records)} :
            /\ tempPage' = page
            /\ flash' = FlashWritten(page, TotalBytes(records, Len(records)))
        /\ saved' = resources /\ saves' = saves + 1
        /\ UNCHANGED <<resources, created, phase>>

\* Power is lost: only the page survives.
Restart ==
    /\ Running
    /\ resources' = <<WellKnown>> /\ created' = 0
    /\ tempPage' = [i \in 1 .. PageSize |-> 0]
    /\ phase' = "boot"
    /\ UNCHANGED <<flash, saved, saves>>

-----------------------------------------------------------------------------
(* CoAP_NVloadObservers, called when the resources exist.                   *)

Memory == flash \o Behind
Unread(position) == SubSeq(Memory, position + 1, Len(Memory))

\* The value of the option with that number, zeros when there is none.
ValueOf(list, number, default) ==
    LET found == OptionsByNumber(list, number)
    IN  IF found = <<>> THEN default ELSE found[Len(found)].Value

LoadedObserver(list) ==
    LET token == ValueOf(list, OPT_NUM_LOBARO_TOKEN_SAVE, TokenStruct(<<>>)) \o <<0>> IN
    [Ep |-> ValueOf(list, OPT_NUM_URI_HOST, <<0>>)[1],
     socketHandle |-> ValueOf(list, OPT_NUM_URI_PORT, <<0>>)[1],
     Token |-> SubSeq(token, 2, 1 + token[1]),
     pOptList |-> OptionsAmong(list, Nat \ {OPT_NUM_URI_HOST, OPT_NUM_URI_PORT,
                                            OPT_NUM_URI_PATH, OPT_NUM_LOBARO_TOKEN_SAVE})]

\* pRawPage, pOptList, and the option lists from which observers were made.
LoadState == [position : Nat, pending : Seq(Option), attached : Seq(Seq(Option))]

\* A record without its resource or without memory is skipped, and its option
\* list kept.
LoadRecord(s, list) ==
    IF \/ FindResourceByUri(resources, list) = {}
       \/ NumObservers(resources) + Len(s.attached) >= MaxObservers
    THEN [s EXCEPT !.pending = list]
    ELSE [s EXCEPT !.attached = Append(@, list)]

\* Until a record is malformed, or the option list was not freed: the parser
\* refuses that.  The next record begins behind the marker.
Attached ==
    LET load[s \in LoadState] ==
            LET read == ParseOptionsFromRaw(Unread(s.position), 0)
            IN  IF s.pending # <<>> \/ read.res # "OK" THEN s
                ELSE load[[LoadRecord(s, read.list) EXCEPT
                              !.position = Len(Memory) - Len(read.payload)]]
    IN  load[[position |-> 0, pending |-> <<>>, attached |-> <<>>]].attached

\* An observer goes to the resource its record leads to.
ObserversFrom(lists, k) ==
    FlattenSeq([j \in DOMAIN lists |->
        IF k \in FindResourceByUri(resources, lists[j]) THEN << LoadedObserver(lists[j]) >>
        ELSE <<>>])

NVloadObservers ==
    /\ phase = "boot" /\ created = Len(Application)
    /\ phase' = "loaded"
    /\ \E lists \in {Attached} :
        resources' = [k \in DOMAIN resources |->
                        [resources[k] EXCEPT !.observers = @ \o ObserversFrom(lists, k)]]
    /\ UNCHANGED <<created, tempPage, flash, saved, saves>>

-----------------------------------------------------------------------------

\* A new device: the page is erased.
Init ==
    /\ resources = <<WellKnown>> /\ created = 0
    /\ tempPage = [i \in 1 .. PageSize |-> 0]
    /\ flash = [i \in 1 .. PageSize |-> 255]
    /\ phase = "boot"
    /\ saved = <<>> /\ saves = 0

Next ==
    \/ CreateResource
    \/ \E client \in Clients, uri \in Uris :
            HandleObservationInReq(client, UriOptionsFromString(uri))
    \/ \E k \in DOMAIN resources : \E j \in DOMAIN resources[k].observers : RemoveObserver(k, j)
    \/ NVsaveObservers
    \/ Restart
    \/ NVloadObservers

Spec == Init /\ [][Next]_vars

-----------------------------------------------------------------------------
(* What a URI string means *)

\* The longest parts of a string without a byte of "delimiters", in order.
Parts(string, delimiters) ==
    LET at(k) == k \in DOMAIN string /\ string[k] \notin delimiters
        begin(j) == CHOOSE i \in 1 .. j : ~at(i - 1) /\ \A k \in i .. j : at(k)
    IN  FlattenSeq([j \in DOMAIN string |->
            IF at(j) /\ ~at(j + 1) THEN << SubSeq(string, begin(j), j) >> ELSE <<>>])

QueryMark(string) == SelectInSeq(string, LAMBDA c : c = Question)

Path(string) ==
    LET mark == QueryMark(string) IN
    Parts(IF mark = 0 THEN string ELSE SubSeq(string, 1, mark - 1), {Slash, Space})

Query(string) ==
    LET mark == QueryMark(string) IN
    IF mark = 0 THEN <<>> ELSE Parts(SubSeq(string, mark + 1, Len(string)), {Ampersand})

\* The resources there are, by the strings they were created from.
Offered ==
    <<CoreUri>> \o FlattenSeq([k \in 1 .. created |->
                      IF Application[k].methods = {} THEN <<>> ELSE << Application[k].Uri >>])

\* A request finds the resource that was created under its path, however the
\* client and the application spell that path and whatever the query is, and
\* only that one; its query is the one that was asked.
UriFindsItsResource ==
    \A uri \in Uris :
        LET options == UriOptionsFromString(uri)
        IN  /\ FindResourceByUri(resources, options)
                  = {k \in DOMAIN Offered :
                        /\ Path(Offered[k]) = Path(uri)
                        /\ \A j \in 1 .. k - 1 : Path(Offered[j]) # Path(uri)}
            /\ [k \in DOMAIN OptionsByNumber(options, OPT_NUM_URI_QUERY) |->
                    OptionsByNumber(options, OPT_NUM_URI_QUERY)[k].Value] = Query(uri)

-----------------------------------------------------------------------------
(* What survives a restart *)

\* The observers a table has at a path.
ObserversAt(table, uri) ==
    UNION {Range(table[k].observers) : k \in {k \in DOMAIN table : table[k].uri = uri}}

\* Loading invents nothing: each observer it attaches was saved for the same
\* path, with the same endpoint, socket, token and options, whatever was saved
\* before it and whatever erased memory follows the records.
RestoredWasSaved ==
    phase = "loaded" =>
        \A k \in DOMAIN resources :
            Range(resources[k].observers) \subseteq ObserversAt(saved, resources[k].uri)

\* The first two records are always read: the observers in them are attached
\* again, unless the second shares its resource with the first (it is written
\* without a path) or is not the first of its resource.
FirstObserversReturn ==
    phase = "loaded" =>
        \A k \in DOMAIN saved :
            /\ saved[k].observers # <<>>
            /\ \A j \in 1 .. k - 1 : Len(saved[j].observers) <= 1
            /\ Cardinality({j \in 1 .. k - 1 : saved[j].observers # <<>>}) <= 1
            => saved[k].observers[1] \in ObserversAt(resources, saved[k].uri)

\* "Save resource and observe information", "Load and attach observers": what
\* is loaded is what was saved.
ObserversSurviveRestart ==
    phase = "loaded" =>
        \A k \in DOMAIN saved :
            Range(saved[k].observers) = ObserversAt(resources, saved[k].uri)
=============================================================================
