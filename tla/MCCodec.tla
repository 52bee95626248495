------------------------------ MODULE MCCodec --------------------------------
(***************************************************************************)
(* Values for TLC.  The octets are those that mean something to the        *)
(* decoder, some letters, a quote and a zero; numbers have at most three   *)
(* characters and are at most 20, and a call may decode sixteen values.    *)
(***************************************************************************)
EXTENDS Codec

Ascii == <<"NUL", "'", "-", "0", "1", "2", "3", "4", "5", "6", "7", "8", "9",
           ":", "b", "d", "e", "f", "i", "l", "n", "p", "t", "x">>

Codes     == [c \in ToSet(Ascii) |-> CHOOSE i \in DOMAIN Ascii : Ascii[i] = c]
Visible   == ToSet(Ascii) \ {"NUL"}

MCKeys == {BenInt(-1), BenStr(<<"x">>), BenStr(<<"x", "NUL">>)}

Packed == BenDict(<<BenStr(<<"b">>), BenInt(10)>>, <<BenBool(FALSE), BenList(<<>>)>>)
(* An object is told from the others by the value it is. *)
MCObjects == {BenInt(-20), BenStr(<<"'", "NUL", "e">>), Packed}
MCPayload == [o \in MCObjects |-> o]

(* Every short text, every value below with one octet replaced, two values *)
(* on end, and numbers with a zero octet in them.                          *)
Letters == {"0", "1", "2", "-", ":", "b", "d", "e", "i", "l"}
Samples == {BenDict(<<BenInt(0), BenStr(<<>>)>>, <<BenInt(1), BenBool(TRUE)>>),
            BenDict(<<BenStr(<<"1">>), BenStr(<<"1", "1">>)>>, <<BenList(<<>>), BenInt(-1)>>),
            BenList(<<BenInt(20), BenStr(<<"e", "e">>)>>)}
Damaged == UNION {{[Serialize(b) EXCEPT ![i] = c] : i \in DOMAIN Serialize(b), c \in Letters}
                    : b \in Samples}
Two     == {Serialize(a) \o Serialize(b) : a, b \in Samples}
Zeros   == {<<"i", "1", "NUL", "e">>, <<"1", "NUL", ":", "x">>}
(* Two values more than a call may decode. *)
TooMany == {Serialize(BenList([i \in 1..17 |-> BenStr(<<>>)]))}
MCInputs == BoundedSeq(Letters, 3) \union Damaged \union Two \union Zeros \union TooMany

-----------------------------------------------------------------------------
(* "info", "piece length", "pieces", "files", "path", "length" and "name"  *)
(* by a letter each, in the order of the keys they stand for.              *)
I == <<"i">>
P == <<"p">>
X == <<"x">>
F == <<"f">>
T == <<"t">>
L == <<"l">>
N == <<"n">>

OneFile  == BenDict(<<BenStr(L), BenStr(T)>>,
                    <<BenInt(1), BenList(<<BenStr(<<"b">>), BenStr(<<"x">>)>>)>>)
Single   == BenDict(<<BenStr(L), BenStr(N), BenStr(P), BenStr(X)>>,
                    <<BenInt(1), BenStr(<<"x">>), BenInt(-1), BenStr(<<"x">>)>>)
Several(file_dict) ==
  BenDict(<<BenStr(F), BenStr(P), BenStr(X)>>,
          <<BenList(<<file_dict>>), BenInt(-1), BenStr(<<"x">>)>>)

(* A dictionary that lacks a field, or has something else there: another   *)
(* type, nothing in it, or a string that is too long.                      *)
Others     == {BenBool(TRUE), BenList(<<>>), BenInt(0), BenStr(<<"b", "b">>)}
Changed(d) ==
  UNION {{BenDict(RemoveAt(d.keys, k), RemoveAt(d.values, k))}
           \union {BenDict(d.keys, [d.values EXCEPT ![k] = v]) : v \in Others}
         : k \in DOMAIN d.keys}

Infos == {Single, Several(OneFile)} \union Changed(Single) \union Changed(Several(OneFile))
           \union {Several(d) : d \in Changed(OneFile)} \union {BenInt(1)}

TorrentText(info) == Serialize(BenDict(<<BenStr(I)>>, <<info>>))

(* Torrents of one file and of several, whole, cut off, with octets        *)
(* replaced, among them a zero that has a sign, with fields that are       *)
(* missing or not what they should be, and with a zero octet put in.       *)
MCFiles ==
  LET whole == {TorrentText(Single), TorrentText(Several(OneFile))}
  IN  UNION {{SubSeq(t, 1, n) : n \in 0..Len(t)} : t \in whole}
        \union UNION {{[t EXCEPT ![i] = c] : i \in DOMAIN t, c \in {"0", "e"}} : t \in whole}
        \union {TorrentText(info) : info \in Infos} \union {Serialize(b) : b \in Samples}
        \union {InsertAt(TorrentText(Single), i, "NUL") : i \in DOMAIN TorrentText(Single)}
=============================================================================
