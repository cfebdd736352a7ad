------------------------------ MODULE Frames ------------------------------
(***************************************************************************)
(* WebSocket framing: ReadMessage on the frames a client sends, and        *)
(* WriteMessage, of which the answers to pings are an example. Headers are *)
(* bytes; a payload is its length. What a client writes and how it reads   *)
(* follows RFC 6455 and is external. A connection may break in the middle  *)
(* of a frame; masking, an involution on the payload, is left out.         *)
(***************************************************************************)
EXTENDS Integers, Sequences, FiniteSets

CONSTANTS
    Lengths,    \* payload lengths of the frames a client may send: four bytes
    MaxFrames   \* bound on their number

ConstantsOK ==
    /\ \A n \in Lengths : n \in Nat /\ n \div 256^3 < 256
    /\ MaxFrames \in Nat

VARIABLES
    wire,      \* what the server has not read: headers, payload lengths, cut
    broken,    \* the client's side is gone
    sent,      \* history: the frames the client has sent whole
    consumed,  \* history: the number of frames ReadMessage has read
    returned,  \* what ReadMessage has returned
    pongs,     \* headers of the frames written in answer to pings
    ended      \* ReadMessage has returned an error

vars == <<wire, broken, sent, consumed, returned, pongs, ended>>

Text == 1
Close == 8
Ping == 9
Pong == 10

Frame == [opcode : {Text, Close, Ping, Pong}, length : Lengths]

Init ==
    /\ wire = <<>>
    /\ broken = FALSE
    /\ sent = <<>>
    /\ consumed = 0
    /\ returned = <<>>
    /\ pongs = <<>>
    /\ ended = FALSE

-----------------------------------------------------------------------------
(* Headers                                                                 *)

(* byte(n >> (8 * k)), of a length *)
Low(n, k) == (n \div 256^k) % 256

(* payloadLen<<8 | b, over the bytes of an extension *)
Number(header, first, last) ==
    LET upTo[i \in (first - 1)..last] ==
            IF i < first THEN 0 ELSE upTo[i - 1] * 256 + header[i]
    IN  upTo[last]

(* A client's header; the mask bit is set. *)
ClientHeader(frame) ==
    LET first == 128 + frame.opcode
        n     == frame.length
    IN  IF n < 126 THEN <<first, 128 + n>>
        ELSE IF n < 65536 THEN <<first, 254, Low(n, 1), Low(n, 0)>>
        ELSE <<first, 255, 0, 0, 0, 0, Low(n, 3), Low(n, 2), Low(n, 1), Low(n, 0)>>

(* What a client takes a server's header to say *)
ClientReads(header) ==
    [opcode |-> header[1] % 128,
     length |-> CASE header[2] = 126 /\ Len(header) = 4  -> Number(header, 3, 4)
                  [] header[2] = 127 /\ Len(header) = 10 -> Number(header, 3, 10)
                  [] header[2] < 126 /\ Len(header) = 2  -> header[2]
                  [] OTHER -> -1]

(* WriteMessage *)
WriteHeader(opcode, n) ==
    IF n <= 125 THEN <<128 + opcode, n>>
    ELSE IF n <= 65535 THEN <<128 + opcode, 126, Low(n, 1), Low(n, 0)>>
    ELSE <<128 + opcode, 127, 0, 0, 0, 0, Low(n, 3), Low(n, 2), Low(n, 1), Low(n, 0)>>

(* Slip: the 16-bit form is read like the 64-bit form. *)
ReadLengthSwapped(header) ==
    LET n == header[2] % 128
    IN  CASE n = 126 -> header[3] + 256 * header[4]
          [] n = 127 -> Number(header, 3, 10)
          [] OTHER   -> n

(* The length ReadMessage takes from a header *)
ReadLength(header) ==
    LET n == header[2] % 128
    IN  CASE n = 126 -> Number(header, 3, 4)
          [] n = 127 -> Number(header, 3, 10)
          [] OTHER   -> n

(* A header of which at least two bytes came, with the buffer's zeros for  *)
(* those that did not                                                      *)
Padded(header, got) ==
    [i \in 1..10 |-> IF i <= got /\ i <= Len(header) THEN header[i] ELSE 0]

-----------------------------------------------------------------------------
(* The client sends a whole frame, or only the first bytes of one. *)
Send ==
    /\ ~broken /\ Len(sent) < MaxFrames
    /\ \E f \in Frame :
        /\ wire' = Append(wire, [header |-> ClientHeader(f), got |-> 10, payload |-> f.length])
        /\ sent' = Append(sent, f)
    /\ UNCHANGED <<broken, consumed, returned, pongs, ended>>

Break ==
    /\ ~broken
    /\ broken' = TRUE
    /\ \/ UNCHANGED wire
       \/ \E f \in Frame :
            LET h == ClientHeader(f) IN
            \E n \in 0..Len(h) :
                wire' = Append(wire, [header |-> h, got |-> n, payload |-> 0])
    /\ UNCHANGED <<sent, consumed, returned, pongs, ended>>

(* ReadMessage, one frame. Only the first two bytes are read with their    *)
(* error checked; what is missing of the rest counts as zeros. Pings are   *)
(* answered and passed over, as are pongs.                                 *)
ReadFrame ==
    /\ ~ended /\ wire # <<>> /\ Head(wire).got >= 2
    /\ LET opcode == Head(wire).header[1] % 16
           length == ReadLength(Padded(Head(wire).header, Head(wire).got))
       IN  /\ wire' = Tail(wire)
           /\ consumed' = consumed + 1
           /\ ended' = (opcode = Close)
           /\ pongs' = IF opcode = Ping THEN Append(pongs, WriteHeader(Pong, length)) ELSE pongs
           /\ returned' = IF opcode = Text
                          THEN Append(returned, [opcode |-> opcode, length |-> length])
                          ELSE returned
    /\ UNCHANGED <<broken, sent>>

ReadFails ==
    /\ ~ended
    /\ IF wire = <<>> THEN broken ELSE Head(wire).got < 2
    /\ ended' = TRUE
    /\ UNCHANGED <<wire, broken, sent, consumed, returned, pongs>>

Next == Send \/ Break \/ ReadFrame \/ ReadFails

Spec == Init /\ [][Next]_vars

-----------------------------------------------------------------------------
(* Properties                                                              *)

TypeOK ==
    /\ sent \in Seq(Frame)
    /\ Len(wire) <= MaxFrames + 1
    /\ \A i \in DOMAIN wire : wire[i].header \in Seq(0..255) /\ wire[i].got \in 0..10
    /\ \A i \in DOMAIN returned : returned[i].length >= 0
    /\ broken \in BOOLEAN /\ ended \in BOOLEAN

(* The frames read of those that were sent whole; of the first i of them,  *)
(* those with one opcode                                                   *)
Whole == IF consumed <= Len(sent) THEN consumed ELSE Len(sent)

Count(i, opcode) == Cardinality({j \in 1..i : sent[j].opcode = opcode})

(* What the frames with one opcode lead to: for each that was read one     *)
(* entry of log, in the same order, of its length. A frame cut off by the  *)
(* end of the connection may add a last entry.                             *)
Agree(opcode, log, as) ==
    /\ Len(log) - Count(Whole, opcode) \in IF consumed > Len(sent) THEN {0, 1} ELSE {0}
    /\ \A i \in 1..Whole : sent[i].opcode = opcode =>
            log[Count(i, opcode)] = [opcode |-> as, length |-> sent[i].length]

(* ReadMessage returns the client's messages, in order, whole, each once,  *)
(* whatever pings and pongs lie between; the last may be one of zeros.     *)
MessagesArrive == Agree(Text, returned, Text)

(* Pings are answered in order with pongs that the client reads as its own *)
(* payload, for every length.                                              *)
PingsAnswered == Agree(Ping, [k \in DOMAIN pongs |-> ClientReads(pongs[k])], Pong)

(* Nothing is read from behind a close. *)
CloseIsLast == \A i \in DOMAIN sent : sent[i].opcode = Close => consumed <= i

(* What either side reads is what the other has sent. *)
FramesAgree == MessagesArrive /\ PingsAnswered /\ CloseIsLast
===========================================================================
