------------------------------ MODULE Protocol ------------------------------
(***************************************************************************)
(* Datagrams and messages: protocol.h and communication.h.  A datagram is  *)
(* Short, when it has less than message_offset bytes, or it has a          *)
(* timestamp and, after the message_offset bytes of the header, data, a    *)
(* sequence of letters and NULs.  The character of the header is carried   *)
(* along like the timestamp, is never looked at and is left out.           *)
(***************************************************************************)
EXTENDS CString

CONSTANTS MAX_TIMESTAMP, Short,
          MaxDatagram   (* what the network carries, 65507 for IPv4        *)

message_offset == 9

is_proper_timestamp(timestamp) == timestamp <= MAX_TIMESTAMP

(* The message that the constructor makes of a datagram that is accepted. *)
from_bytes(datagram) ==
  [timestamp |-> datagram.timestamp, message |-> c_str(datagram.data)]

(* Bug for the checks: the NUL is not sent. *)
to_bytes_bare(message, with_message) ==
  [timestamp |-> message.timestamp, data |-> message.message]

(* The datagram that send_message makes of a message. *)
to_bytes(message, with_message) ==
  [timestamp |-> message.timestamp,
   data |-> message.message \o (IF with_message THEN <<NUL>> ELSE <<>>)]

fits(datagram) == message_offset + Len(datagram.data) <= MaxDatagram

(* receive_message returns a message and does not throw. *)
accepts(datagram, with_message) ==
  /\ datagram # Short
  /\ with_message => datagram.data # <<>> /\ Last(datagram.data) = NUL
  /\ is_proper_timestamp(datagram.timestamp)

has_message(message) == message.message # <<>>
=============================================================================
