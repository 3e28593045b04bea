------------------------------- MODULE CoapPDU -------------------------------
(***************************************************************************)
(* Kwiatek: a CoAP message in one buffer.  Options are written in any      *)
(* order and stored in the order of their numbers, each as the distance to *)
(* the one before; adding one in the middle moves the bytes behind it and  *)
(* rewrites the next distance.  The user builds a message from front to    *)
(* back, as sensors/main.cpp does: token and options before the payload.   *)
(***************************************************************************)
EXTENDS Integers, SequencesExt

CONSTANTS
    Number,         \* numbers of options
    ValueLength,    \* lengths of option values and of payloads
    TokenLength,
    Path,           \* URIs: the lengths of their segments
    Fixed,          \* TRUE: constructed from a buffer, of BufferLength bytes
    BufferLength,
    MaxOptions,     \* bound: options of a message
    NULL

\* uint8_t oldPDULength in setToken: a longer message is not looked at.
CoapConstants == BufferLength \in 4 .. 255 /\ Fixed \subseteq BOOLEAN

VARIABLES
    pdu,            \* [fixed, bytes, numOptions, maxAdded, payload, payloadLength, block]
    added,          \* the options whose addition succeeded, in that order
    contents,       \* what setPayload was last given with success
    failed          \* an addition failed since the last reset

coapVars == <<pdu, added, contents, failed>>

COAP_HDR_SIZE == 4
URI_PATH == 11
Marker == 255
Junk == 170         \* a byte nobody wrote

Bytes(n) == 0 .. n - 1
pduLength(p) == Cardinality(DOMAIN p.bytes)
getTokenLength(p) == p.bytes[0] % 16
getType(p) == (p.bytes[0] \div 16) % 4
getVersion(p) == p.bytes[0] \div 64

\* memcpy: s over the bytes from `at`.
Write(b, at, s) ==
    [i \in DOMAIN b |-> IF i - at + 1 \in DOMAIN s THEN s[i - at + 1] ELSE b[i]]
Grow(b, n) == [i \in Bytes(n) |-> IF i \in DOMAIN b THEN b[i] ELSE Junk]
\* The bytes from `at` move by `by`, upwards and downwards.
shiftPDUUp(b, at, by) ==
    [i \in DOMAIN b |-> IF i >= at + by THEN b[i - by] ELSE b[i]]
shiftPDUDown(b, at, by) ==
    [i \in DOMAIN b |-> IF i >= at /\ i + by \in DOMAIN b THEN b[i + by] ELSE b[i]]

\* A number in a nibble, and in one or two bytes behind the header.
Nibble(n) == IF n < 13 THEN n ELSE IF n < 269 THEN 13 ELSE 14
Extension(n) ==
    IF n < 13 THEN << >>
    ELSE IF n < 269 THEN <<n - 13>> ELSE <<(n - 269) \div 256, (n - 269) % 256>>
computeExtraBytes(n) == Len(Extension(n))

Extended(b, nibble, at) ==
    CASE nibble = 13 -> b[at] + 13
      [] nibble = 14 -> 256 * b[at] + b[at + 1] + 269
      [] OTHER -> nibble
getOptionDelta(b, at) == Extended(b, b[at] \div 16, at + 1)
getOptionValueLength(b, at) ==
    Extended(b, b[at] % 16, at + 1 + computeExtraBytes(getOptionDelta(b, at)))

OptionLength(delta, length) ==
    1 + computeExtraBytes(delta) + computeExtraBytes(length) + length
OptionLengthAt(b, at) == OptionLength(getOptionDelta(b, at), getOptionValueLength(b, at))

setOptionDelta(b, at, delta) ==
    Write(b, at, <<16 * Nibble(delta) + (b[at] % 16)>> \o Extension(delta))
insertOption(b, at, delta, value) ==
    Write(b, at, <<16 * Nibble(delta) + Nibble(Len(value))>>
                 \o Extension(delta) \o Extension(Len(value)) \o value)

\* The walk over the options from `at`, behind an option of number `number`:
\* their numbers, values and places.
RECURSIVE Walk(_, _, _, _)
Walk(b, end, at, number) ==
    IF at >= end \/ b[at] = Marker THEN << >>
    ELSE LET n == (number + getOptionDelta(b, at)) % 65536
             length == getOptionValueLength(b, at)
             next == at + OptionLengthAt(b, at)
         IN <<[number |-> n, at |-> at,
               value |-> [i \in 1 .. length |-> b[next - length + i - 1]]]>>
            \o Walk(b, end, next, n)

Options(p) == Walk(p.bytes, pduLength(p), COAP_HDR_SIZE + getTokenLength(p), 0)
\* getOptions stops after numOptions, however many there are.
getOptions(p) == SubSeq(Options(p), 1, p.numOptions)

\* The segments of the path; a slash goes before each.
getURI(p) ==
    LET segments == SelectSeq(getOptions(p), LAMBDA o : o.number = URI_PATH)
    IN [i \in DOMAIN segments |-> segments[i].value]

\* Behind the last of the options `before`, at the first if there are none.
Behind(p, before) ==
    IF before = << >> THEN [at |-> COAP_HDR_SIZE + getTokenLength(p), previous |-> 0]
    ELSE [at |-> Last(before).at + OptionLengthAt(p.bytes, Last(before).at),
          previous |-> Last(before).number]

\* mutant: an option goes before those of its number
BeforeEquals(p, number) ==
    IF number >= p.maxAdded THEN [at |-> pduLength(p), previous |-> p.maxAdded]
    ELSE Behind(p, SelectSeq(Options(p), LAMBDA o : o.number < number))

\* [at, previous]: behind the options that are not larger; at the end, and trusting
\* maxAdded, if there is none larger.
findInsertionPosition(p, number) ==
    IF number >= p.maxAdded \/ pduLength(p) = COAP_HDR_SIZE + getTokenLength(p)
    THEN [at |-> pduLength(p), previous |-> p.maxAdded]
    ELSE Behind(p, SelectSeq(Options(p), LAMBDA o : o.number <= number))

\* realloc succeeds, a fixed buffer may be too small.
Fits(p, n) == p.fixed => n <= BufferLength

\* At the end of a message that is n bytes afterwards; a failure has changed maxAdded.
Appended(p, number, value, delta, n) ==
    [ok |-> Fits(p, n),
     pdu |-> IF Fits(p, n)
             THEN [p EXCEPT !.maxAdded = number, !.numOptions = @ + 1,
                            !.bytes = insertOption(Grow(@, n), pduLength(p), delta, value)]
             ELSE [p EXCEPT !.maxAdded = number]]

\* Before the option at `at`, whose distance becomes nextDelta and takes `by` more bytes.
Inserted(p, at, value, delta, nextDelta, length, by) ==
    LET shifted == shiftPDUUp(Grow(p.bytes, pduLength(p) + length + by), at, length + by)
    IN IF ~Fits(p, pduLength(p) + length + by) THEN [ok |-> FALSE, pdu |-> p]
       ELSE [ok |-> TRUE,
             pdu |-> [p EXCEPT !.bytes =
                 insertOption(
                     setOptionDelta(Write(shifted, at + length, <<shifted[at + length + by]>>),
                                    at + length, nextDelta),
                     at, delta, value)]]

AddAt(p, number, value, place, delta, length) ==
    LET old == getOptionDelta(p.bytes, place.at)
        new == place.previous + old - number
    IN IF place.at = pduLength(p) THEN Appended(p, number, value, delta, pduLength(p) + length)
       ELSE Inserted(p, place.at, value, delta, new, length,
                     computeExtraBytes(new) - computeExtraBytes(old))

\* [ok, pdu]
AddBehind(p, number, value, place) ==
    AddAt(p, number, value, place, (number - place.previous) % 65536,
          OptionLength((number - place.previous) % 65536, Len(value)))
addOption(p, number, value) == AddBehind(p, number, value, findInsertionPosition(p, number))

Header(version) == [i \in Bytes(4) |-> IF i = 0 THEN 64 * version ELSE 0]
Fresh(fixed, version) ==
    [fixed |-> fixed, bytes |-> Header(version), numOptions |-> 0, maxAdded |-> 0,
     payload |-> NULL, payloadLength |-> 0, block |-> 0]

Init ==
    /\ \E fixed \in Fixed : pdu = Fresh(fixed, 1)
    /\ added = << >> /\ contents = << >> /\ failed = FALSE

\* Both clear all of the header, the version included.
reset ==
    /\ pdu' = [Fresh(pdu.fixed, 0) EXCEPT !.block = pdu.block]
    /\ added' = << >> /\ contents' = << >> /\ failed' = FALSE

setType(type) ==
    /\ pdu' = [pdu EXCEPT !.bytes[0] = 64 * getVersion(pdu) + 16 * type + getTokenLength(pdu)]
    /\ UNCHANGED <<added, contents, failed>>

WithToken(p, token) ==
    LET by == Len(token) - getTokenLength(p)
        n == pduLength(p) + by
        named == [p.bytes EXCEPT ![0] = @ - getTokenLength(p) + Len(token)]
    IN IF by > 0
       THEN Write(shiftPDUUp(Grow(named, n), COAP_HDR_SIZE, by), COAP_HDR_SIZE, token)
       ELSE Grow(shiftPDUDown(Write(named, COAP_HDR_SIZE, token),
                              COAP_HDR_SIZE + Len(token), -by), n)

Building == pdu.payload = NULL
Room(n) == Building /\ Len(added) + n <= MaxOptions

setToken(n) ==
    /\ Building
    /\ Fits(pdu, pduLength(pdu) + n - getTokenLength(pdu))
    /\ pdu' = [pdu EXCEPT !.bytes = WithToken(pdu, [i \in 1 .. n |-> 200 + n])]
    /\ UNCHANGED <<added, contents, failed>>

\* The values differ from one option to the next.
Value(n, length) == [i \in 1 .. length |-> n]

\* Both of a message and of the options it was given.
Extend(r, number, value, result) ==
    [ok |-> result.ok, pdu |-> result.pdu,
     added |-> IF result.ok THEN Append(r.added, [number |-> number, value |-> value])
               ELSE r.added]

Add(r, number, value) == Extend(r, number, value, addOption(r.pdu, number, value))
Start == [ok |-> TRUE, pdu |-> pdu, added |-> added]
Become(r) ==
    /\ pdu' = r.pdu /\ added' = r.added /\ failed' = (failed \/ ~r.ok)
    /\ UNCHANGED contents

AddOption(number, length) ==
    /\ Room(1)
    /\ \E r \in {Add(Start, number, Value(Len(added) + 1, length))} : Become(r)

\* One option for a segment; it stops at the first that fails.
AddSegment(r, length) == IF r.ok THEN Add(r, URI_PATH, Value(Len(r.added) + 1, length)) ELSE r
setURI(path) ==
    /\ Room(Len(path))
    /\ \E r \in {FoldLeft(AddSegment, Start, path)} : Become(r)

\* A dynamic message that grows or shrinks may get another block, and payload then points
\* into the old one.
mallocPayload(p, n, moves) ==
    LET marker == IF p.payloadLength = 0 THEN 1 ELSE 0
        length == pduLength(p) + n - p.payloadLength + marker
        q == [p EXCEPT !.bytes = Grow(@, length), !.payloadLength = n,
                       !.block = IF moves THEN @ + 1 ELSE @]
    IN IF n = p.payloadLength THEN p
       ELSE IF p.payload = NULL
       THEN [q EXCEPT !.bytes[pduLength(p)] = Marker,
                      !.payload = [block |-> q.block, at |-> pduLength(p) + 1]]
       ELSE q

setPayload(n) ==
    LET value == [i \in 1 .. n |-> 100 + n] IN
    /\ n > 0
    /\ Fits(pdu, pduLength(pdu) + n - pdu.payloadLength + (IF Building THEN 1 ELSE 0))
    /\ \E moves \in BOOLEAN :
          /\ moves => ~pdu.fixed /\ n # pdu.payloadLength /\ pdu.block < 1
          /\ \E p \in {mallocPayload(pdu, n, moves)} : pdu' =
                IF p.payload.block = p.block
                THEN [p EXCEPT !.bytes = Write(@, p.payload.at, value)] ELSE p
          /\ contents' = value
    /\ UNCHANGED <<added, failed>>

Next ==
    \/ reset
    \/ \E type \in {0, 1} : setType(type)
    \/ \E n \in TokenLength : setToken(n)
    \/ \E number \in Number, length \in ValueLength : AddOption(number, length)
    \/ \E path \in Path : setURI(path)
    \/ \E n \in ValueLength : setPayload(n)

Spec == Init /\ [][Next]_coapVars
-----------------------------------------------------------------------------
\* validate: the header, and the walk of a receiver that ends exactly at the end or at a
\* marker with something behind it.
validate(p) ==
    /\ getTokenLength(p) \in 0 .. 8
    /\ \E end \in {Behind(p, Options(p)).at} :
          \/ end = pduLength(p)
          \/ end + 1 < pduLength(p) /\ p.bytes[end] = Marker

TypeOK ==
    /\ \A i \in DOMAIN pdu.bytes : pdu.bytes[i] \in 0 .. 255
    /\ DOMAIN pdu.bytes = Bytes(pduLength(pdu)) /\ pduLength(pdu) \in 4 .. 255
    /\ pdu.payload # NULL => pdu.payload.block <= pdu.block
    /\ Len(added) <= MaxOptions

\* The order of the wire: by number, and as they were added among equals.
Sorted(s) ==
    FoldLeft(LAMBDA r, o : SelectSeq(r, LAMBDA x : x.number <= o.number) \o <<o>>
                           \o SelectSeq(r, LAMBDA x : x.number > o.number), << >>, s)

\* In whatever order options are added, whatever bytes that moves, and however long the
\* token is made meanwhile, a receiver accepts the message and finds in it exactly the
\* options that were added; unless an addition failed in between.
OptionsSurvive ==
    ~failed => /\ validate(pdu)
               /\ [i \in DOMAIN Options(pdu) |->
                      [number |-> Options(pdu)[i].number, value |-> Options(pdu)[i].value]]
                  = Sorted(added)

\* setPayload "will set the payload to payload" (cantcoap.cpp:1216), unless the message was
\* moved after the payload was first set: the pointer stays in the old block.
PayloadIsStored ==
    contents # << >> /\ pdu.payload.block = pdu.block =>
        [i \in 1 .. pdu.payloadLength |-> pdu.bytes[pduLength(pdu) - pdu.payloadLength + i - 1]]
        = contents

\* getURI "concatenates any URI_PATH elements" (cantcoap.cpp:574): the path is read as it
\* was set when no option has been put before another (numOptions misses one that was).
PathIsRead ==
    LET segments == SelectSeq(added, LAMBDA o : o.number = URI_PATH) IN
    ~failed /\ (\A i \in 2 .. Len(added) : added[i - 1].number <= added[i].number)
    => getURI(pdu) = [i \in DOMAIN segments |-> segments[i].value]
=============================================================================
