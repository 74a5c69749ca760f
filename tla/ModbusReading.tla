---------------------------- MODULE ModbusReading ----------------------------
(***************************************************************************)
(* The way of a value from the registers of a Modbus device to a tag: the  *)
(* monitors and previews of the datasources of one gateway take turns on   *)
(* it, each with a connection of its own, ask for a block of registers or  *)
(* coils, and the tag decodes, transforms and coerces what comes back.     *)
(*                                                                         *)
(* protocol/modbus/driver.go, tcp.go and error.go, the execution gate of   *)
(* device/monitor.go, and tag/converter.go, decoder.go and transform.go.   *)
(*                                                                         *)
(* A byte has ByteBits bits.  A connection is what the transport library   *)
(* makes of it: answers come in the order of the requests, and a request   *)
(* takes the next answer whatever it is an answer to.  How a device lays   *)
(* a value out is a definition of its own (Encoded), against which the     *)
(* decoder is checked.                                                     *)
(***************************************************************************)
EXTENDS Integers, Sequences, FiniteSets

CONSTANTS
    Monitors,     \* datasources that are monitored
    Previews,     \* callers that preview a datasource
    Offers,       \* what users configure: [function, start, quantity,
                  \*   dataType, order, byteOffset, bitOffset, gain, offset]
    Values,       \* the values of the device
    ValueAt,      \* the register at which the device has its value
    DeviceType,   \* its data type and its byte order
    DeviceOrder,
    ByteBits,     \* bits of a byte (8)
    MaxRegisters, \* registers of a request (125)
    MaxCoils,     \* coils of a request (2000)
    MaxAddress,   \* the last address (65535)
    MaxWrites     \* bound of the changes of the value

VARIABLES
    device,   \* the value that the device has
    writes,   \* changes so far
    config,   \* the configuration of the datasource
    phase,    \* idle, waiting (for the gate), dialling, reading or ended
    gate,     \* who has taken the token of the execution gate
    wire,     \* the connection of each: [open, asked, answers]
    fresh,    \* the values the device had since the request was sent
    tag       \* the value last put for a tag, and fresh at that time

modbusVars == <<device, writes, config, phase, gate, wire, fresh, tag>>

Pollers == Monitors \cup Previews
Free == {}
Closed == [open |-> FALSE, asked |-> 0, answers |-> <<>>]
Bad == [quality |-> "bad", value |-> 0, fresh |-> {}]
Unset == [function |-> "none"]

Byte == 2 ^ ByteBits
Word == Byte * Byte
Coils == {"coils", "discrete"}
Registers == {"holding", "input"}

ModbusTypeOK ==
    /\ device \in Values /\ gate \subseteq Pollers
    /\ \A c \in Pollers :
          /\ phase[c] \in {"idle", "waiting", "dialling", "reading", "ended"}
          /\ tag[c].quality \in {"good", "bad"}
          /\ Len(wire[c].answers) <= MaxWrites + 2

ModbusInit ==
    /\ device \in Values /\ writes = 0
    /\ config = [c \in Pollers |-> Unset]
    /\ phase = [c \in Pollers |-> "idle"] /\ gate = Free
    /\ wire = [c \in Pollers |-> Closed]
    /\ fresh = [c \in Pollers |-> {}]
    /\ tag = [c \in Pollers |-> Bad]

(***************************************************************************)
(* The device.                                                             *)
(***************************************************************************)
binaryDataSize(dataType) ==
    CASE dataType = "bool" -> 1
      [] dataType \in {"int16", "uint16"} -> 2
      [] dataType \in {"int32", "uint32"} -> 4

Size == binaryDataSize(DeviceType)

(* The place of the byte of rank i, the most significant being 1 *)
PlaceOf(i, order) ==
    CASE order = "big_endian" -> i
      [] order = "little_endian" -> Size + 1 - i
      [] order = "word_swap" -> 2 * (Size \div 2 + 1 - ((i + 1) \div 2)) - (i % 2)
      [] order = "byte_swap" -> IF i % 2 = 1 THEN i + 1 ELSE i - 1

Encoded(v) ==
    [place \in 1 .. Size |->
        LET i == CHOOSE i \in 1 .. Size : PlaceOf(i, DeviceOrder) = place
        IN  ((v % (Byte ^ Size)) \div (Byte ^ (Size - i))) % Byte]

(* Bytes of a block of registers; what is not the value is zero *)
ByteAt(v, place) ==
    IF place - 2 * ValueAt \in 1 .. Size THEN Encoded(v)[place - 2 * ValueAt] ELSE 0
RegisterBytes(v, start, quantity) ==
    [i \in 1 .. 2 * quantity |-> ByteAt(v, 2 * start + i)]

(* The bits of the value are also coils, the least significant first *)
Coil(v, address) == ((v % (Byte ^ Size)) \div (2 ^ address)) % 2

RECURSIVE Sum(_, _)
Sum(f, S) == IF S = {} THEN 0
             ELSE LET x == CHOOSE x \in S : TRUE IN f[x] + Sum(f, S \ {x})
CoilBytes(v, start, quantity) ==
    [i \in 1 .. (quantity + ByteBits - 1) \div ByteBits |->
        Sum([k \in 0 .. ByteBits - 1 |->
                IF (i - 1) * ByteBits + k < quantity
                THEN Coil(v, start + (i - 1) * ByteBits + k) * 2 ^ k ELSE 0],
            0 .. ByteBits - 1)]

Answer(v, c) ==
    IF config[c].function \in Coils
    THEN CoilBytes(v, config[c].start, config[c].quantity)
    ELSE RegisterBytes(v, config[c].start, config[c].quantity)

(***************************************************************************)
(* What the tag makes of the bytes.                                        *)
(***************************************************************************)
Fault == [ok |-> FALSE, value |-> 0]
Ok(v) == [ok |-> TRUE, value |-> v]

ReverseOf(s) == [i \in DOMAIN s |-> s[Len(s) + 1 - i]]

(* A word swap turns the words around and leaves the bytes in each *)
ApplyByteOrder(raw, order) ==
    CASE order = "big_endian" -> raw
      [] order = "little_endian" -> ReverseOf(raw)
      [] order = "word_swap" ->
            LET n == Len(raw) \div 2
            IN  [i \in DOMAIN raw |->
                    LET word == (i + 1) \div 2
                    IN  raw[2 * (n + 1 - word) - (i % 2)]]
      [] order = "byte_swap" -> [i \in DOMAIN raw |-> IF i % 2 = 1 THEN raw[i + 1] ELSE raw[i - 1]]

BigEndian(bytes) ==
    Sum([i \in DOMAIN bytes |-> bytes[i] * Byte ^ (Len(bytes) - i)], DOMAIN bytes)

Signed(u, size) == IF 2 * u >= Byte ^ size THEN u - Byte ^ size ELSE u

ConvertBinary(raw, cfg) ==
    LET size == binaryDataSize(cfg.dataType)
        window == SubSeq(raw, cfg.byteOffset + 1, cfg.byteOffset + size)
        unsigned == BigEndian(ApplyByteOrder(window, cfg.order))
    IN  CASE size > Len(raw) - cfg.byteOffset -> Fault
          [] size <= Len(raw) - cfg.byteOffset /\ cfg.dataType = "bool" ->
                Ok((window[1] \div (2 ^ cfg.bitOffset)) % 2)
          [] size <= Len(raw) - cfg.byteOffset /\ cfg.dataType \in {"uint16", "uint32"} ->
                Ok(unsigned)
          [] OTHER -> Ok(Signed(unsigned, size))

(* A linear transform takes no bool *)
applyLinearTransform(v, cfg) ==
    CASE cfg.gain = 1 /\ cfg.offset = 0 -> v
      [] ~(cfg.gain = 1 /\ cfg.offset = 0) ->
            IF v.ok /\ cfg.dataType # "bool" THEN Ok(v.value * cfg.gain + cfg.offset) ELSE Fault

InRange(dataType, n) ==
    LET top == Byte ^ binaryDataSize(dataType)
    IN  CASE dataType = "bool" -> n \in 0 .. 1
          [] dataType \in {"uint16", "uint32"} -> 0 <= n /\ n < top
          [] OTHER -> -top <= 2 * n /\ 2 * n < top

coerceTagValue(v, cfg) == IF v.ok /\ InRange(cfg.dataType, v.value) THEN v ELSE Fault

processReadingSample(raw, cfg) ==
    coerceTagValue(applyLinearTransform(ConvertBinary(raw, cfg), cfg), cfg)

(***************************************************************************)
(* The driver.                                                             *)
(***************************************************************************)
validateReadRequest(cfg) ==
    /\ cfg.quantity > 0
    /\ \/ cfg.function \in Coils /\ cfg.quantity <= MaxCoils
       \/ cfg.function \in Registers /\ cfg.quantity <= MaxRegisters
    /\ cfg.start + cfg.quantity - 1 <= MaxAddress

NormalizeDecoder(cfg) ==
    /\ cfg.byteOffset >= 0
    /\ IF cfg.dataType = "bool" THEN cfg.bitOffset < ByteBits ELSE cfg.bitOffset = 0

(* The datasource and its tag are configured *)
Configure(c, cfg) ==
    /\ config[c] = Unset
    /\ validateReadRequest(cfg) /\ NormalizeDecoder(cfg)
    /\ config' = [config EXCEPT ![c] = cfg]
    /\ UNCHANGED <<device, writes, phase, gate, wire, fresh, tag>>

(* The ticker of a monitor fires, or a preview is asked for *)
Tick(c) ==
    /\ config[c] # Unset /\ phase[c] = "idle"
    /\ phase' = [phase EXCEPT ![c] = "waiting"]
    /\ UNCHANGED <<device, writes, config, gate, wire, fresh, tag>>

(* The request goes out on the connection *)
Send(c, w) ==
    /\ wire' = [wire EXCEPT ![c] = [w EXCEPT !.asked = @ + 1]]
    /\ fresh' = [fresh EXCEPT ![c] = {device}]
    /\ phase' = [phase EXCEPT ![c] = "reading"]

(* Execute takes the token; a connection that is there is used again *)
Enter(c) ==
    /\ phase[c] = "waiting" /\ gate = Free /\ gate' = {c}
    /\ IF wire[c].open THEN Send(c, wire[c])
       ELSE phase' = [phase EXCEPT ![c] = "dialling"] /\ UNCHANGED <<wire, fresh>>
    /\ UNCHANGED <<device, writes, config, tag>>

(* A sample is emitted and its tag is put; a preview closes its connection *)
Finish(c, outcome, w) ==
    /\ tag' = [tag EXCEPT ![c] = outcome]
    /\ wire' = [wire EXCEPT ![c] = IF c \in Previews THEN Closed ELSE w]
    /\ phase' = [phase EXCEPT ![c] = "idle"] /\ gate' = Free
    /\ fresh' = [fresh EXCEPT ![c] = {}]
    /\ UNCHANGED <<device, writes, config>>

Dial(c) ==
    /\ phase[c] = "dialling"
    /\ Send(c, [Closed EXCEPT !.open = TRUE])
    /\ UNCHANGED <<device, writes, config, gate, tag>>
DialFails(c) == phase[c] = "dialling" /\ Finish(c, Bad, Closed)

(* The answer: bytes, or an exception, which leaves the connection open *)
Receive(c) ==
    /\ phase[c] = "reading" /\ wire[c].answers # <<>>
    /\ LET raw == Head(wire[c].answers)
           value == processReadingSample(raw, config[c])
       IN  Finish(c, IF raw # <<>> /\ value.ok
                     THEN [quality |-> "good", value |-> value.value, fresh |-> fresh[c]]
                     ELSE Bad,
                  [wire[c] EXCEPT !.answers = Tail(@)])

(* Faulty variant: the connection is kept after a timeout *)
ReadFailsKeeping(c) == phase[c] = "reading" /\ Finish(c, Bad, wire[c])

(* A timeout, a lost connection or a malformed answer: any error but an    *)
(* exception closes the connection                                         *)
ReadFails(c) == phase[c] = "reading" /\ Finish(c, Bad, Closed)

(* The context of a monitor is cancelled: nothing more is emitted *)
Cancel(c) ==
    /\ c \in Monitors /\ config[c] # Unset /\ phase[c] # "ended"
    /\ phase' = [phase EXCEPT ![c] = "ended"]
    /\ wire' = [wire EXCEPT ![c] = Closed]
    /\ gate' = gate \ {c}
    /\ fresh' = [fresh EXCEPT ![c] = {}]
    /\ UNCHANGED <<device, writes, config, tag>>

(* The device answers the next request on a connection *)
Serve(c, exception) ==
    /\ wire[c].asked > 0
    /\ wire' = [wire EXCEPT ![c].asked = @ - 1,
                            ![c].answers = Append(@, IF exception THEN <<>> ELSE Answer(device, c))]
    /\ UNCHANGED <<device, writes, config, phase, gate, fresh, tag>>

(* The value of the device changes *)
Write(v) ==
    /\ writes < MaxWrites /\ v # device
    /\ device' = v /\ writes' = writes + 1
    /\ fresh' = [c \in Pollers |-> IF phase[c] = "reading" THEN fresh[c] \cup {v} ELSE {}]
    /\ UNCHANGED <<config, phase, gate, wire, tag>>

ModbusNext ==
    \/ \E c \in Pollers :
          \/ \E cfg \in Offers : Configure(c, cfg)
          \/ Tick(c) \/ Enter(c) \/ Dial(c) \/ DialFails(c) \/ Receive(c)
          \/ ReadFails(c) \/ Cancel(c)
          \/ \E exception \in BOOLEAN : Serve(c, exception)
    \/ \E v \in Values : Write(v)

ModbusSpec == ModbusInit /\ [][ModbusNext]_modbusVars

(***************************************************************************)
(* Properties.                                                             *)
(***************************************************************************)
(* The configuration reads the value of the device: all of it, with its    *)
(* type and order, from the block that has it, wherever the block starts   *)
ReadsTheValue(cfg) ==
    /\ cfg.function \in Registers /\ cfg.dataType = DeviceType /\ cfg.order = DeviceOrder
    /\ 2 * cfg.start + cfg.byteOffset = 2 * ValueAt

(* A good value of a tag is a value that the device had while its request  *)
(* was out, transformed as configured - never one that belongs to an       *)
(* earlier request that timed out - and a coil is the coil it asks for.    *)
TagShowsDevice ==
    \A c \in Pollers : tag[c].quality = "good" =>
        LET cfg == config[c]
        IN  /\ ReadsTheValue(cfg) =>
                  \E v \in tag[c].fresh : tag[c].value = v * cfg.gain + cfg.offset
            /\ cfg.function \in Coils /\ cfg.dataType = "bool" =>
                  LET address == cfg.start + cfg.byteOffset * ByteBits + cfg.bitOffset
                  IN  address < cfg.start + cfg.quantity =>
                          \E v \in tag[c].fresh : tag[c].value = Coil(v, address)
=============================================================================
