-------------------------------- MODULE Sha1 ---------------------------------
(***************************************************************************)
(* The accumulator of sha1.c: how the octets of a message, handed over in  *)
(* calls of sha1_update of any size, come to be the blocks that are        *)
(* compressed, and how sha1_result pads the last one.                      *)
(*                                                                         *)
(* The compression of a block is not computed.  Message_Digest is          *)
(* determined by the blocks compressed so far, which `fed` is, one after   *)
(* the other.  Octet k of the message is -k, so that none is taken for an  *)
(* octet of padding.  The code has blocks of 64 octets, words of 4 and     *)
(* octets of 8 bits; smaller ones bring the limits of the length within    *)
(* reach of a model checker.                                               *)
(***************************************************************************)
EXTENDS Integers, Sequences

CONSTANTS
  BlockSize,    \* 64
  WordOctets,   \* 4
  OctetBits,    \* 8
  ChunkSizes    \* the sizes sha1_update is called with

OctetLimit == 2 ^ OctetBits
WordLimit  == 2 ^ (OctetBits * WordOctets)
LengthSize == 2 * WordOctets
TailStart  == BlockSize - LengthSize   \* 56: where the length is stored

ASSUME Sha1Assumption ==
  /\ BlockSize \in Nat /\ WordOctets \in Nat \ {0} /\ OctetBits \in Nat \ {0}
  /\ ChunkSizes \subseteq Nat
  /\ TailStart > 0
  /\ WordLimit % OctetBits = 0

(* The laws of powers that the two words rest on, which the provers do not *)
(* know: a word has WordOctets octets, and two words twice as many.        *)
ASSUME PowersAssumption ==
  /\ OctetLimit \in Nat \ {0} /\ WordLimit \in Nat \ {0}
  /\ \A e \in 0..(WordOctets - 1) :
       /\ OctetLimit ^ e \in Nat \ {0}
       /\ OctetLimit ^ (WordOctets + e) = WordLimit * OctetLimit ^ e
       /\ WordLimit = OctetLimit ^ e * OctetLimit * OctetLimit ^ (WordOctets - 1 - e)
       /\ OctetLimit ^ (WordOctets - 1 - e) \in Nat

Mark == 2 ^ (OctetBits - 1)   \* 0x80

VARIABLES
  Message_Block, Message_Block_Index,
  Length_Low, Length_High,    \* the length in bits, in two words
  Computed, Corrupted,
  fed,        \* the blocks compressed so far: what Message_Digest digests
  size,       \* what is left of the octets of the call of sha1_update
  message,    \* how many octets have been accepted since sha1_clear
  late,       \* has sha1_update been called after sha1_result?
  hash        \* what the last sha1_result wrote, <<>> before the first

blockVars  == <<Message_Block, Message_Block_Index, fed>>
lengthVars == <<Length_Low, Length_High>>
flagVars   == <<Computed, Corrupted>>
vars == <<blockVars, lengthVars, flagVars, size, message, late, hash>>

Octets == 0..(BlockSize - 1)

(* As sha1_clear leaves it; what is in Message_Block does not matter. *)
Init ==
  /\ Message_Block = [k \in Octets |-> 0]
  /\ Message_Block_Index = 0
  /\ Length_Low = 0 /\ Length_High = 0
  /\ Computed = FALSE /\ Corrupted = FALSE
  /\ fed = <<>>
  /\ size = 0 /\ message = 0 /\ late = FALSE
  /\ hash = <<>>

(* Message_Block keeps what it held. *)
Clear ==
  /\ size = 0
  /\ Message_Block_Index' = 0
  /\ Length_Low' = 0 /\ Length_High' = 0
  /\ Computed' = FALSE /\ Corrupted' = FALSE
  /\ fed' = <<>>
  /\ message' = 0 /\ late' = FALSE /\ hash' = <<>>
  /\ UNCHANGED <<Message_Block, size>>

AsSequence(block) == [k \in 1..BlockSize |-> block[k - 1]]

(* Mutants: the index is not reset; the block's last octet is not yet in. *)
CompressNoReset(block) ==
  /\ fed' = fed \o AsSequence(block)
  /\ Message_Block_Index' = Message_Block_Index + 1
CompressEarly(block) ==
  /\ fed' = fed \o AsSequence(Message_Block)
  /\ Message_Block_Index' = 0

(* _sha1_process_message_block, which leaves an empty block behind. *)
Compress(block) ==
  /\ fed' = fed \o AsSequence(block)
  /\ Message_Block_Index' = 0

-----------------------------------------------------------------------------
(* sha1_update. *)

Update(n) ==
  /\ size = 0
  /\ n > 0
  /\ IF Computed \/ Corrupted
       THEN Corrupted' = TRUE /\ UNCHANGED size
       ELSE size' = n /\ UNCHANGED Corrupted
  /\ late' = (late \/ Computed)
  /\ UNCHANGED <<blockVars, lengthVars, Computed, message, hash>>

(* Mutant: the carry into the high word is lost. *)
AddOctetNoCarry ==
  /\ Length_Low' = (Length_Low + OctetBits) % WordLimit
  /\ UNCHANGED <<Length_High, Corrupted>>

(* The length grows by one octet; a carry out of the high word corrupts. *)
AddOctet ==
  /\ Length_Low' = (Length_Low + OctetBits) % WordLimit
  /\ Length_High' = IF Length_Low' = 0 THEN (Length_High + 1) % WordLimit
                                       ELSE Length_High
  /\ Corrupted' = (Length_Low' = 0 /\ Length_High' = 0)

(* One octet, and the compression of the block it fills. *)
Feed ==
  /\ size > 0
  /\ message' = message + 1
  /\ Message_Block' = [Message_Block EXCEPT ![Message_Block_Index] = -message']
  /\ AddOctet
  /\ IF Message_Block_Index + 1 = BlockSize
       THEN Compress(Message_Block')
       ELSE Message_Block_Index' = Message_Block_Index + 1 /\ UNCHANGED fed
  /\ size' = IF Corrupted' THEN 0 ELSE size - 1
  /\ UNCHANGED <<Computed, late, hash>>

-----------------------------------------------------------------------------
(* _sha1_pad_message and sha1_result. *)

(* Octet k of a word, the most significant first. *)
OctetOf(word, k) == (word \div OctetLimit ^ (WordOctets - 1 - k)) % OctetLimit

LengthOctet(k) == IF k < WordOctets THEN OctetOf(Length_High, k)
                                    ELSE OctetOf(Length_Low, k - WordOctets)

(* The message's octets, the mark and zeros. *)
Marked == [k \in Octets |-> CASE k < Message_Block_Index -> Message_Block[k]
                              [] k = Message_Block_Index -> Mark
                              [] OTHER                   -> 0]

(* The block with the length for its last octets. *)
Ended(block) ==
  [k \in Octets |-> IF k < TailStart THEN block[k] ELSE LengthOctet(k - TailStart)]

(* Mutant: a block with one octet too few for mark and length. *)
TooFullByOne == Message_Block_Index > TailStart

(* Has the block no room for the mark and the length? *)
TooFull == Message_Block_Index > TailStart - 1

(* The one or two blocks the padding makes of what is in Message_Block. *)
Pad ==
  IF TooFull
    THEN /\ Message_Block' = Ended([k \in Octets |-> 0])
         /\ fed' = fed \o AsSequence(Marked) \o AsSequence(Message_Block')
         /\ Message_Block_Index' = 0
    ELSE /\ Message_Block' = Ended(Marked)
         /\ Compress(Message_Block')

(* sha1_result returns 0 and writes nothing when the digest is corrupted. *)
Result ==
  /\ size = 0
  /\ ~Corrupted
  /\ IF Computed
       THEN UNCHANGED blockVars
       ELSE Pad
  /\ Computed' = TRUE
  /\ hash' = fed'
  /\ UNCHANGED <<lengthVars, Corrupted, size, message, late>>

Next == Clear \/ Feed \/ Result \/ \E n \in ChunkSizes : Update(n)
Spec == Init /\ [][Next]_vars

-----------------------------------------------------------------------------
TypeOK ==
  /\ Message_Block \in [Octets -> Int]
  /\ Message_Block_Index \in Octets
  /\ Length_Low \in 0..(WordLimit - 1) /\ Length_High \in 0..(WordLimit - 1)
  /\ Computed \in BOOLEAN /\ Corrupted \in BOOLEAN /\ late \in BOOLEAN
  /\ fed \in Seq(Int) /\ hash \in Seq(Int)
  /\ size \in Nat /\ message \in Nat

(* The message of n octets as SHA-1 pads it: a mark, the fewest zeros that *)
(* make whole blocks, and the length in bits.                              *)
Padded(n) ==
  LET total == ((n + LengthSize) \div BlockSize + 1) * BlockSize
  IN  [k \in 1..total |->
         CASE k <= n                  -> -k
           [] k = n + 1               -> Mark
           [] k > total - LengthSize  ->
                ((OctetBits * n) \div OctetLimit ^ (total - k)) % OctetLimit
           [] OTHER                   -> 0]

(***************************************************************************)
(* The digest is that of the whole message, padded as SHA-1 says, however  *)
(* the calls of sha1_update cut it, and whichever call of sha1_result gave *)
(* it: check_sha1_piece and the info hash stand on this.                   *)
(***************************************************************************)
DigestOfMessage == hash # <<>> => hash = Padded(message)

(***************************************************************************)
(* Until the padding, the compressed blocks and the filled part of         *)
(* Message_Block together are the message.                                 *)
(***************************************************************************)
Accumulated ==
  ~Computed =>
    fed \o SubSeq(AsSequence(Message_Block), 1, Message_Block_Index)
      = [k \in 1..message |-> -k]

(***************************************************************************)
(* The two words hold the message's length, up to the 2^64 bits that       *)
(* sha1.h promises, and the digest is corrupted exactly when it cannot be  *)
(* right: the message was too long, or went on after its digest was taken. *)
(***************************************************************************)
LengthKept ==
  IF OctetBits * message < WordLimit * WordLimit
    THEN /\ Length_High * WordLimit + Length_Low = OctetBits * message
         /\ Corrupted <=> late
    ELSE Corrupted
=============================================================================
