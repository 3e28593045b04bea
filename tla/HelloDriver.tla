----------------------------- MODULE HelloDriver -----------------------------
(***************************************************************************)
(* Minix: a character device over one buffer (helloN.c).  Reads and writes *)
(* are cut off at the end of the device; a live update hands the buffer to *)
(* the next build as a string, a restart begins anew.                      *)
(***************************************************************************)
EXTENDS Integers, Sequences, FiniteSetTheorems, TLAPS

CONSTANTS
    DEVICE_SIZE,
    Byte, NUL, A,   \* A is the 'a' of a fresh device
    MaxTransfer     \* bound: size of a read or write

HelloConstants == DEVICE_SIZE \in Nat /\ NUL \in Byte /\ A \in Byte /\ NUL # A

VARIABLES
    data,           \* with a NUL behind the device
    written,        \* what the device should hold: all writes since it started
    binary          \* a NUL has been among them

vars == <<data, written, binary>>

Device == 0 .. DEVICE_SIZE - 1
Fresh == [p \in 0 .. DEVICE_SIZE |-> IF p = DEVICE_SIZE THEN NUL ELSE A]

Init == data = Fresh /\ written = [p \in Device |-> A] /\ binary = FALSE

\* mutant: the position is forgotten
LimitedInSize(position, size) == IF size > DEVICE_SIZE THEN DEVICE_SIZE ELSE size

\* How much of a transfer is on the device.
Limited(position, size) ==
    IF position >= DEVICE_SIZE THEN 0
    ELSE IF position + size > DEVICE_SIZE THEN DEVICE_SIZE - position ELSE size

Over(f, position, bytes) ==
    [p \in DOMAIN f |-> IF p - position + 1 \in DOMAIN bytes THEN bytes[p - position + 1] ELSE f[p]]

hello_write(position, bytes) ==
    /\ data' = Over(data, position, SubSeq(bytes, 1, Limited(position, Len(bytes))))
    /\ written' = Over(written, position, bytes)
    /\ binary' = (binary \/ \E i \in DOMAIN bytes : bytes[i] = NUL)

\* The bytes a read returns.
hello_read(position, n) ==
    [i \in 1 .. Limited(position, n) |-> data[position + i - 1]]

\* ds_publish_str hands over the bytes up to the first NUL.
Published ==
    {p \in Device : \A q \in 0 .. p : data[q] # NUL}

\* sef_cb_lu_state_save, then sef_cb_init of the next build.
LiveUpdate ==
    /\ data' = [p \in DOMAIN data |-> IF p \in Published THEN data[p]
                                      ELSE IF p = Cardinality(Published) THEN NUL ELSE Fresh[p]]
    /\ UNCHANGED <<written, binary>>

Restart == data' = Fresh /\ written' = [p \in Device |-> A] /\ binary' = FALSE

Next ==
    \/ \E position \in 0 .. DEVICE_SIZE, n \in 0 .. MaxTransfer :
          \E bytes \in [1 .. n -> Byte] : hello_write(position, bytes)
    \/ LiveUpdate
    \/ Restart

Spec == Init /\ [][Next]_vars
-----------------------------------------------------------------------------
TypeOK ==
    /\ data \in [0 .. DEVICE_SIZE -> Byte] /\ data[DEVICE_SIZE] = NUL
    /\ written \in [Device -> Byte]

\* What a read should return: the bytes from there on, as many as there are.
Expected(position, n) ==
    [i \in {j \in 1 .. n : position + j - 1 \in Device} |-> written[position + i - 1]]

\* As long as only text has been written since the device started, reads return what was
\* last written at each place, across live updates, and stop at the end of the device.
\* (The state is handed over as a string: after a NUL it is lost.)
TextSurvives ==
    ~binary => \A position \in 0 .. DEVICE_SIZE, n \in 0 .. MaxTransfer :
                   hello_read(position, n) = Expected(position, n)
-----------------------------------------------------------------------------
(* Proofs, for every size of the device and of transfers *)

\* The invariant: as long as only text was written, the buffer holds it, without a NUL.
HelloInv ==
    /\ TypeOK
    /\ ~binary => \A p \in Device : data[p] = written[p] /\ data[p] # NUL

\* What part of a transfer is on the device.
LEMMA LimitedToDevice ==
    ASSUME HelloConstants, NEW position \in 0 .. DEVICE_SIZE, NEW n \in Nat
    PROVE  /\ Limited(position, n) \in 0 .. n
           /\ \A i \in 1 .. n : i <= Limited(position, n) <=> position + i - 1 \in Device
BY DEF HelloConstants, Limited, Device

\* Writing changes the device and what it should hold alike, and leaves its end alone.
LEMMA WritesAlike ==
    ASSUME HelloConstants, TypeOK, NEW position \in 0 .. DEVICE_SIZE, NEW n \in Nat,
           NEW bytes \in [1 .. n -> Byte], hello_write(position, bytes)
    PROVE  /\ TypeOK'
           /\ \A p \in Device : \/ data'[p] = data[p] /\ written'[p] = written[p]
                                \/ \E i \in 1 .. n : data'[p] = bytes[i] /\ written'[p] = bytes[i]
<1>1. bytes \in Seq(Byte) /\ Len(bytes) = n
  OBVIOUS
<1>2. PICK m \in 0 .. n : /\ m = Limited(position, n)
                          /\ \A i \in 1 .. n : i <= m <=> position + i - 1 \in Device
  BY LimitedToDevice
<1>3. PICK front : front = SubSeq(bytes, 1, m)
  OBVIOUS
<1>4. DOMAIN front = 1 .. m /\ \A i \in 1 .. m : front[i] = bytes[i]
  BY <1>1, <1>2, <1>3
<1>5. data' = Over(data, position, front) /\ written' = Over(written, position, bytes)
  BY <1>1, <1>2, <1>3 DEF hello_write
<1>6. /\ data \in [0 .. DEVICE_SIZE -> Byte] /\ data[DEVICE_SIZE] = NUL
      /\ written \in [Device -> Byte] /\ DEVICE_SIZE \in Nat /\ Device = 0 .. DEVICE_SIZE - 1
  BY DEF TypeOK, HelloConstants, Device
<1>7. \A p \in 0 .. DEVICE_SIZE :
        data'[p] = IF p - position + 1 \in 1 .. m THEN bytes[p - position + 1] ELSE data[p]
  BY <1>4, <1>5, <1>6 DEF Over
<1>8. \A p \in Device :
        written'[p] = IF p - position + 1 \in 1 .. n THEN bytes[p - position + 1] ELSE written[p]
  BY <1>5, <1>6 DEF Over
<1>9. \A p \in Device : p - position + 1 \in 1 .. m <=> p - position + 1 \in 1 .. n
  BY <1>2, <1>6
<1>10. \A i \in 1 .. n : bytes[i] \in Byte
  OBVIOUS
<1>11. data' \in [0 .. DEVICE_SIZE -> Byte]
  <2>1. data' = [p \in 0 .. DEVICE_SIZE |-> data'[p]]
    BY <1>5, <1>6 DEF Over
  <2>2. \A p \in 0 .. DEVICE_SIZE : data'[p] \in Byte
    BY <1>2, <1>6, <1>7, <1>10
  <2> QED BY <2>1, <2>2
<1>12. written' \in [Device -> Byte]
  <2>1. written' = [p \in Device |-> written'[p]]
    BY <1>5, <1>6 DEF Over
  <2>2. \A p \in Device : written'[p] \in Byte
    BY <1>6, <1>8, <1>10
  <2> QED BY <2>1, <2>2
<1>13. data'[DEVICE_SIZE] = NUL
  <2>1. ~ (DEVICE_SIZE - position + 1 \in 1 .. m)
    BY <1>2, <1>6
  <2> QED BY <1>6, <1>7, <2>1
<1>14. TypeOK'
  BY <1>11, <1>12, <1>13 DEF TypeOK, Device
<1>15. ASSUME NEW p \in Device
       PROVE  \/ data'[p] = data[p] /\ written'[p] = written[p]
              \/ \E i \in 1 .. n : data'[p] = bytes[i] /\ written'[p] = bytes[i]
  <2>1. p \in 0 .. DEVICE_SIZE
    BY <1>6
  <2>2. CASE p - position + 1 \in 1 .. n
    BY <1>7, <1>8, <1>9, <2>1, <2>2
  <2>3. CASE ~ (p - position + 1 \in 1 .. n)
    BY <1>7, <1>8, <1>9, <2>1, <2>3
  <2> QED BY <2>2, <2>3
<1> QED BY <1>14, <1>15

\* Without a NUL on the device, a live update hands over all of it.
LEMMA TextIsHandedOver ==
    ASSUME HelloConstants, TypeOK, \A p \in Device : data[p] # NUL
    PROVE  Cardinality(Published) = DEVICE_SIZE /\ Published = Device
<1>1. Published = Device
  BY DEF Published, Device, HelloConstants
<1>2. Cardinality(Device) = DEVICE_SIZE
  BY FS_Interval DEF Device, HelloConstants
<1> QED BY <1>1, <1>2

\* The buffer of helloN.c returns the text that was written to it, across live updates and
\* restarts, whatever its size and the positions and sizes of reads and writes.
THEOREM TextAlwaysSurvives == ASSUME HelloConstants PROVE Spec => [](TypeOK /\ TextSurvives)
<1>1. Init => HelloInv
  BY DEF Init, HelloInv, TypeOK, Fresh, Device, HelloConstants
<1>2. HelloInv /\ [Next]_vars => HelloInv'
  <2> SUFFICES ASSUME HelloInv, [Next]_vars PROVE HelloInv'
    OBVIOUS
  <2>1. CASE UNCHANGED vars
    BY <2>1 DEF vars, HelloInv, TypeOK, Device
  <2>2. ASSUME NEW position \in 0 .. DEVICE_SIZE, NEW n \in 0 .. MaxTransfer,
               NEW bytes \in [1 .. n -> Byte], hello_write(position, bytes)
        PROVE  HelloInv'
    <3>1. n \in Nat
      OBVIOUS
    <3>2. /\ TypeOK'
          /\ \A p \in Device :
                \/ data'[p] = data[p] /\ written'[p] = written[p]
                \/ \E i \in 1 .. n : data'[p] = bytes[i] /\ written'[p] = bytes[i]
      BY <2>2, <3>1, WritesAlike DEF HelloInv
    <3>3. ~binary' => ~binary /\ \A i \in 1 .. n : bytes[i] # NUL
      BY <2>2 DEF hello_write
    <3> QED BY <3>2, <3>3 DEF HelloInv, Device
  <2>3. CASE LiveUpdate
    <3>1. TypeOK'
      <4>1. /\ data \in [0 .. DEVICE_SIZE -> Byte] /\ DEVICE_SIZE \in Nat
            /\ Fresh \in [0 .. DEVICE_SIZE -> Byte] /\ Fresh[DEVICE_SIZE] = NUL /\ NUL \in Byte
            /\ DEVICE_SIZE \notin Published
        BY DEF HelloInv, TypeOK, HelloConstants, Fresh, Published, Device
      <4>2. data' \in [0 .. DEVICE_SIZE -> Byte] /\ data'[DEVICE_SIZE] = NUL
        BY <2>3, <4>1 DEF LiveUpdate
      <4> QED BY <2>3, <4>2 DEF LiveUpdate, HelloInv, TypeOK, Device
    <3>2. ASSUME ~binary' PROVE \A p \in Device : data'[p] = written'[p] /\ data'[p] # NUL
      <4>1. ~binary /\ written' = written
        BY <2>3, <3>2 DEF LiveUpdate
      <4>2. Published = Device
        BY <4>1, TextIsHandedOver DEF HelloInv
      <4>3. \A p \in Device : data'[p] = data[p]
        BY <2>3, <4>2 DEF LiveUpdate, HelloInv, TypeOK, Device, HelloConstants
      <4> QED BY <4>1, <4>3 DEF HelloInv
    <3> QED BY <3>1, <3>2 DEF HelloInv, Device
  <2>4. CASE Restart
    BY <2>4 DEF Restart, HelloInv, TypeOK, Fresh, Device, HelloConstants
  <2> QED BY <2>1, <2>2, <2>3, <2>4 DEF Next
<1>3. HelloInv => TypeOK /\ TextSurvives
  <2> SUFFICES ASSUME HelloInv, ~binary, NEW position \in 0 .. DEVICE_SIZE,
                      NEW n \in 0 .. MaxTransfer
               PROVE  hello_read(position, n) = Expected(position, n)
    BY DEF HelloInv, TextSurvives
  <2>0. n \in Nat
    OBVIOUS
  <2>1. PICK m \in 0 .. n : /\ m = Limited(position, n)
                            /\ \A i \in 1 .. n : i <= m <=> position + i - 1 \in Device
    BY <2>0, LimitedToDevice
  <2>2. {j \in 1 .. n : position + j - 1 \in Device} = 1 .. m
    BY <2>1
  <2>3. \A i \in 1 .. m : data[position + i - 1] = written[position + i - 1]
    BY <2>1 DEF HelloInv
  <2> QED BY <2>1, <2>2, <2>3 DEF hello_read, Expected
<1> QED BY <1>1, <1>2, <1>3, PTL DEF Spec
=============================================================================
