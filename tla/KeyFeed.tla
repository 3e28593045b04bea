------------------------------- MODULE KeyFeed -------------------------------
(***************************************************************************)
(* The keys of the snake game on their way from the GUI to the client.     *)
(* The GUI writes a line for each key event into a TCP connection; the     *)
(* client reads what has come, whole lines or not, and takes it for one    *)
(* line.  The commands to the GUI are built in the buffer that the keys    *)
(* are read into, and one the connection refuses is left there.            *)
(***************************************************************************)
EXTENDS Integers, SequencesExt, FiniteSets

CONSTANTS
    CommandLength,          \* lengths of commands in bytes
    MaxWire, MaxRefusals    \* bounds: lines on their way, commands refused

KeyConstants == CommandLength \subseteq Nat /\ MaxWire \in Nat /\ MaxRefusals \in Nat

Key == {"left", "right"}
Line == [key : Key, down : BOOLEAN]

VARIABLES
    held,               \* the keys the player holds down
    wire, cut,          \* the lines not read yet; whether the front of the first was read
    pressed,            \* left_pressed, rigth_pressed: the keys that are TRUE
    turn_direction,
    buf,                \* positions of the buffer, from 1, that hold a byte other than 0
    missed,             \* keys whose last event read was not understood
    refusals, lost      \* commands refused; lines read whole and alone but not understood

keyVars == <<held, wire, cut, pressed, turn_direction, buf, missed, refusals, lost>>

Init ==
    /\ held = {} /\ wire = << >> /\ cut = FALSE
    /\ pressed = {} /\ turn_direction = 0 /\ buf = {}
    /\ missed = {} /\ refusals = 0 /\ lost = 0

\* A key held down repeats its event.
SendKey(k, down) ==
    /\ Len(wire) < MaxWire
    /\ ~down => k \in held
    /\ held' = IF down THEN held \cup {k} ELSE held \ {k}
    /\ wire' = Append(wire, [key |-> k, down |-> down])
    /\ UNCHANGED <<cut, pressed, turn_direction, buf, missed, refusals, lost>>

\* "LEFT_KEY_UP\n" has 12 bytes.
Length(line) == 12 + (IF line.key = "right" THEN 1 ELSE 0) + (IF line.down THEN 2 ELSE 0)

Direction(keys) ==
    CASE keys = {"left"} -> -1
      [] keys = {"right"} -> 1
      [] OTHER -> 0

\* The text runs to the first byte 0, whatever the number of bytes read.
Matches(line) == Length(line) + 1 \notin buf

\* mutant: the buffer is cleared only when a line was understood
ClearedWhenUnderstood(understood) == IF understood THEN {} ELSE buf

\* receive_message clears the buffer whether or not it was understood.
Cleared(understood) == {}

load(line) ==
    /\ pressed' = IF line.down THEN pressed \cup {line.key} ELSE pressed \ {line.key}
    /\ turn_direction' = Direction(pressed')

\* A read takes the first n lines and maybe the front of the next.
ReceiveMessage(n, front) ==
    LET whole == n = 1 /\ ~front /\ ~cut
        read == {wire[i].key : i \in 1 .. n}
        understood == whole /\ Matches(wire[1])
    IN /\ front => n < Len(wire)
       /\ n > 0 \/ front
       /\ wire' = SubSeq(wire, n + 1, Len(wire))
       /\ cut' = front
       /\ IF understood THEN load(wire[1]) ELSE UNCHANGED <<pressed, turn_direction>>
       /\ missed' = IF understood THEN missed \ read ELSE missed \cup read
       /\ lost' = IF whole /\ ~understood THEN lost + 1 ELSE lost
       /\ buf' = Cleared(understood)
       /\ UNCHANGED <<held, refusals>>

\* The text and the byte 0 behind it go into the buffer, which is cleared when it was sent.
SendCommand ==
    /\ buf' = {}
    /\ UNCHANGED <<held, wire, cut, pressed, turn_direction, missed, refusals, lost>>

CommandRefused(len) ==
    /\ refusals < MaxRefusals
    /\ refusals' = refusals + 1
    /\ buf' = (buf \ {len + 1}) \cup 1 .. len
    /\ UNCHANGED <<held, wire, cut, pressed, turn_direction, missed, lost>>

Next ==
    \/ \E k \in Key, down \in BOOLEAN : SendKey(k, down)
    \/ \E n \in 0 .. Len(wire), front \in BOOLEAN : ReceiveMessage(n, front)
    \/ SendCommand
    \/ \E len \in CommandLength : CommandRefused(len)

Spec == Init /\ [][Next]_keyVars
-----------------------------------------------------------------------------
TypeOK ==
    /\ held \subseteq Key /\ pressed \subseteq Key /\ missed \subseteq Key
    /\ wire \in BoundedSeq(Line, MaxWire) /\ cut \in BOOLEAN
    /\ turn_direction \in {-1, 0, 1}
    /\ buf \subseteq Nat /\ refusals \in 0 .. MaxRefusals /\ lost \in Nat

\* When all of a key's events were read and the last was understood, the client holds the
\* key as the player does; with both keys so, the snake turns the way they say.
KeysFollow ==
    LET settled == {k \in Key \ missed : \A i \in 1 .. Len(wire) : wire[i].key # k} IN
    /\ \A k \in settled : k \in pressed <=> k \in held
    /\ settled = Key =>
          turn_direction = Cardinality(held \ {"left"}) - Cardinality(held \ {"right"})

\* A line that comes whole and alone is lost only to a refused command, and no command
\* costs more than one: the next read finds a clean buffer.
OneLossPerRefusal == lost <= refusals
=============================================================================
