------------------------------- MODULE Startup -------------------------------
(***************************************************************************)
(* How a run starts: readbinaryfile reads the .torrent file octet by       *)
(* octet, parse_torrent decodes it and takes the info hash of what it      *)
(* decoded, and main goes on to the peer whatever came of that.            *)
(*                                                                         *)
(* Where the code follows a null pointer or takes a value for one of       *)
(* another type the run is "undefined": nothing is said of what follows.   *)
(***************************************************************************)
EXTENDS Decoder, Encoder

CONSTANTS
  BufSize,   \* 12 * 1024: the buffer of parse_torrent
  PiecesSize, \* 2048: what pieces_sha1 holds
  Files,     \* what the file may hold
  InfoKey, PieceLengthKey, PiecesKey,          \* "info", "piece length", "pieces"
  FilesKey, PathKey, LengthKey, NameKey        \* "files", "path", "length", "name"

ASSUME StartupAssumption ==
  /\ \A f \in Files : f \in Seq(Octet) /\ Len(f) < BufSize
  /\ BufSize \in Nat /\ PiecesSize \in Nat
  /\ {InfoKey, PieceLengthKey, PiecesKey, FilesKey, PathKey, LengthKey, NameKey}
       \subseteq Seq(Octet \ {"NUL"})

VARIABLES
  run,    \* "idle", "reading", "decoding", "connect" or "undefined"
  file,   \* what the file holds
  buf,    \* what is stored in the buffer
  eof,    \* feof
  ret,    \* what parse_torrent returned, -1 before that
  hashed  \* what the info hash was computed from

startupVars == <<run, file, buf, eof, ret, hashed>>

StartupInit ==
  /\ run = "idle" /\ file = <<>> /\ buf = <<>> /\ eof = FALSE
  /\ ret = -1 /\ hashed = <<>>

(* The end of parse_torrent, and main going on. *)
ParseReturns(r) == run' = "connect" /\ ret' = r

OpenFile(f) ==
  /\ run = "idle"
  /\ \/ run' = "reading" /\ file' = f /\ UNCHANGED ret
     \/ ParseReturns(0) /\ UNCHANGED file
  /\ UNCHANGED <<decoderVars, buf, eof, hashed>>

(* The read that fails sets feof, and what the read before it left in tmp  *)
(* is stored once more; before the first read tmp holds anything.          *)
ReadOctet ==
  /\ run = "reading" /\ ~eof
  /\ IF Len(buf) < Len(file)
       THEN buf' = Append(buf, file[Len(buf) + 1]) /\ UNCHANGED eof
       ELSE /\ buf' \in {Append(buf, c) : c \in IF buf = <<>> THEN Octet ELSE {Last(buf)}}
            /\ eof' = TRUE
  /\ UNCHANGED <<decoderVars, run, file, ret, hashed>>

(* Mutant: the octet stored too many is counted. *)
OctetsStored == Len(buf)

(* What readbinaryfile returns. *)
OctetsRead == Len(buf) - 1

EndRead ==
  /\ run = "reading" /\ eof
  /\ IF OctetsRead <= 0
       THEN ParseReturns(0) /\ UNCHANGED decoderVars
       ELSE /\ BenDecode(SubSeq(buf, 1, OctetsRead))
            /\ run' = "decoding" /\ UNCHANGED ret
  /\ UNCHANGED <<file, buf, eof, hashed>>

Lookup(d, s) == GetByStr(d.keys, d.values, s)

Undefined == run' = "undefined" /\ UNCHANGED <<ret, hashed>>

(* What check_next_piece follows of one file of several: the last part of  *)
(* its path, and its length.                                               *)
PathAndLength(file_dict) ==
  /\ file_dict.type = "dict"
  /\ Lookup(file_dict, LengthKey).type = "int"
  /\ LET path == Lookup(file_dict, PathKey)
     IN  path.type = "list" /\ path.values # <<>> /\ Last(path.values).type = "str"

FilesFound(info) ==
  LET files == Lookup(info, FilesKey)
  IN  IF files # None
        THEN /\ files.type = "list"
             /\ \A i \in DOMAIN files.values : PathAndLength(files.values[i])
        ELSE /\ Lookup(info, LengthKey).type = "int"
             /\ Lookup(info, NameKey).type = "str"

(* parse_torrent finds what it looks up, and pieces_sha1 holds the pieces. *)
Complete(info) ==
  /\ info.type = "dict"
  /\ Lookup(info, PieceLengthKey).type = "int"
  /\ LET pieces == Lookup(info, PiecesKey)
     IN  pieces.type = "str" /\ Len(pieces.s) <= PiecesSize
  /\ FilesFound(info)

ZeroAsInt(n) == n % 65536 = 0 /\ (n \div 65536) % 65536 = 0

(* ben_encode may find no memory; and check_next_piece divides by the piece *)
(* length, if there is some of the files on disk.                           *)
MayFault(info) == "blob" \in Fallible \/ ZeroAsInt(Lookup(info, PieceLengthKey).ll)

ParseTorrentFile ==
  /\ run = "decoding" /\ status \in {"ok", "failed", "undefined"}
  /\ IF status = "undefined" THEN Undefined
     ELSE IF value = None THEN ParseReturns(0) /\ UNCHANGED hashed
     ELSE IF value.type # "dict" THEN Undefined
     ELSE LET info == Lookup(value, InfoKey) IN
          IF info = None THEN ParseReturns(0) /\ UNCHANGED hashed
          ELSE IF Complete(info)
          THEN \/ ParseReturns(1) /\ hashed' = Serialize(info)
               \/ MayFault(info) /\ Undefined
          ELSE Undefined
  /\ UNCHANGED <<decoderVars, file, buf, eof>>

StartupStep == ReadOctet \/ EndRead \/ ParseTorrentFile

-----------------------------------------------------------------------------
(***************************************************************************)
(* A file of less than the 12 KB that parse_torrent's comment allows is    *)
(* read whole and nothing else is decoded, and the octet readbinaryfile    *)
(* stores too many is still within the buffer.                             *)
(***************************************************************************)
ReadWhole ==
  /\ Len(buf) <= BufSize
  /\ run = "decoding" => data = file

(***************************************************************************)
(* The info hash is that of the info dictionary as it stands in the file,  *)
(* by which the peers know the torrent, though it is computed from an      *)
(* encoding of what the file was decoded to.  The exception is that of     *)
(* OneEncoding: a zero octet within a number.  And what parse_torrent      *)
(* returns tells main, which does not look and goes on, whether a hash was *)
(* taken at all.                                                           *)
(***************************************************************************)
InfoHash ==
  /\ hashed # <<>> <=> ret = 1
  /\ ret = 1 /\ ~clipped =>
       \E p \in DOMAIN file :
         LET text == Serialize(BenStr(InfoKey)) \o hashed
         IN  SubSeq(file, p, Min({p + Len(text) - 1, Len(file)})) = text
=============================================================================
