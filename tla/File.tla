-------------------------------- MODULE File --------------------------------
(***************************************************************************)
(* The class of file.h: a file is opened, read piece by piece into a       *)
(* buffer, and closed.  A piece may be shorter than what was asked for;    *)
(* it is appended to the content as the string that the buffer holds.      *)
(***************************************************************************)
EXTENDS CString

CONSTANTS Byte,          (* what a file is made of, NUL included           *)
          buffer_length  (* 64 * 1024 in file.h                            *)

VARIABLES disk,      (* the file                                           *)
          file,      (* the descriptor: "closed" or "open"                 *)
          offset,    (* how much of the file has been read                 *)
          buffer,    (* a local of read_content, not initialized           *)
          content    (* what has been read                                 *)

(* The local exists from the opening on: nothing happens in between. *)
File ==
  /\ file = "closed"
  /\ file' = "open"
  /\ offset' = 0
  /\ buffer' \in [1 .. buffer_length -> Byte]
  /\ content' = <<>>
  /\ UNCHANGED disk

(* Bug for the checks: the piece is not terminated. *)
Filled_not(piece) ==
  piece \o SubSeq(buffer, Len(piece) + 1, buffer_length)

(* The buffer after read() put a piece there, and buffer[length] = NUL. *)
Filled(piece) ==
  piece \o <<NUL>> \o SubSeq(buffer, Len(piece) + 2, buffer_length)

(* read() returns the next n bytes, at most one less than the buffer has. *)
Read(n) ==
  /\ file = "open"
  /\ n > 0
  /\ n <= buffer_length - 1
  /\ offset + n <= Len(disk)
  /\ buffer' = Filled(SubSeq(disk, offset + 1, offset + n))
  /\ content' = content \o c_str(buffer')
  /\ offset' = offset + n
  /\ UNCHANGED <<disk, file>>

(* The destructor closes the file. *)
Close ==
  /\ file = "open"
  /\ file' = "closed"
  /\ offset' = 0
  /\ buffer' = <<>>
  /\ UNCHANGED disk

(* read() returns 0: the content is complete. *)
ReadEnd ==
  /\ offset = Len(disk)
  /\ Close
  /\ content' = content \o c_str(Filled(<<>>))

(* read() fails, and read_content throws. *)
ReadFails == Close /\ UNCHANGED content
=============================================================================
