----------------------------- MODULE SysTxCodec -----------------------------
(***************************************************************************)
(* The system-transaction codec of src/systx (builder.go and the files    *)
(* bundled in builder_test.go) and the conversions around it in the       *)
(* consensus manager and the engine, at reduced widths:                    *)
(*   - uint64 is a UintBits-bit unsigned integer and int64 its two's      *)
(*     complement reading;                                                 *)
(*   - a bytes32 word carrying a number is that number (every encoder     *)
(*     writes it right-aligned, every decoder reads it as big-endian);    *)
(*   - a bytes32 word carrying bytes (btcTxID) is a sequence of HashBytes *)
(*     bytes; a hash copied as a whole (rootHash, digest) is an opaque    *)
(*     value, as copying it is the identity;                              *)
(*   - a string is a sequence of ASCII codes.                              *)
(* Calldata is <<selector>> followed by its 32-byte words.                *)
(***************************************************************************)
EXTENDS Naturals, Integers, Sequences, SequencesExt

CONSTANTS
    UintBits,      \* width of uint64
    HashBytes,     \* width of a bytes32 in bytes
    SubmittedSel, ConfirmedSel, AnchorSel   \* the three 4-byte selectors

ASSUME UintBits \in Nat \ {0} /\ HashBytes \in Nat \ {0}

UintMax == 2 ^ UintBits

-----------------------------------------------------------------------------
(* Integer conversions.                                                   *)

\* big.NewInt(int64(x)) then common.BigToHash: the int64 reading of the
\* uint64 bits, of which BigToHash keeps the magnitude (big.Int.Bytes).
BigToHashInt64(x) ==
    LET s == IF x >= UintMax \div 2 THEN x - UintMax ELSE x
    IN  IF s < 0 THEN -s ELSE s

\* BytesToHash(word).Big().Uint64() / SetBytes(word).Uint64(): the low
\* 64 bits of the word.
WordUint(w) == w % UintMax

-----------------------------------------------------------------------------
(* Strings and bytes.                                                     *)

HexChar(d) == IF d < 10 THEN 48 + d ELSE 87 + d     \* '0'..'9', 'a'..'f'
HexValue(c) == IF c <= 57 THEN c - 48 ELSE c - 87

\* common.Bytes2Hex (hex.EncodeToString): two lower-case digits per byte.
Bytes2Hex(bs) ==
    FlattenSeq([i \in 1..Len(bs) |-> <<HexChar(bs[i] \div 16), HexChar(bs[i] % 16)>>])

\* common.FromHex on a string of hex digits: an odd length gets a leading
\* '0', then two digits per byte.
FromHex(s) ==
    LET t == IF Len(s) % 2 = 1 THEN <<48>> \o s ELSE s
    IN  [i \in 1..Len(t) \div 2 |-> 16 * HexValue(t[2 * i - 1]) + HexValue(t[2 * i])]

\* common.BytesToHash: the last HashBytes bytes, left-padded with zeros.
BytesToHash(bs) ==
    IF Len(bs) >= HashBytes THEN SubSeq(bs, Len(bs) - HashBytes + 1, Len(bs))
    ELSE [i \in 1..HashBytes - Len(bs) |-> 0] \o bs

ZeroBytes == [i \in 1..HashBytes |-> 0]

\* btcTxIDToBytes32 / btcTxIDToBytes32Local: "" is the zero hash; a "0x"
\* prefix is dropped; then common.HexToHash.
BtcTxIDToBytes32(txid) ==
    IF txid = <<>> THEN ZeroBytes
    ELSE LET t == IF Len(txid) >= 2 /\ txid[1] = 48 /\ txid[2] = 120
                  THEN SubSeq(txid, 3, Len(txid)) ELSE txid
         IN  BytesToHash(FromHex(t))

\* copy(btcTxID[:], []byte(result.BTCTxID)): the first HashBytes
\* characters of the string, zero-filled when it is shorter.
AsciiCopy(s) == [i \in 1..HashBytes |-> IF i <= Len(s) THEN s[i] ELSE 0]

-----------------------------------------------------------------------------
(* Encoders.                                                              *)

\* BuildOTSSubmittedTx: selector, rootHash, otsDigest.
OTSSubmittedCalldata(root, digest) == <<SubmittedSel, root, digest>>

\* BuildOTSConfirmedTx: selector, rootHash, btcBlockHeight, btcTxID,
\* btcTimestamp; both integers through int64(x) and BigToHash.
OTSConfirmedCalldata(root, height, txid, ts) ==
    <<ConfirmedSel, root, BigToHashInt64(height), txid, BigToHashInt64(ts)>>

\* encodeCalldata / BuildAnchorTx: selector, startBlock, endBlock,
\* batchRoot, btcTxHash from the BTCTxID string, btcTimestamp; the
\* integers through SetUint64, which writes their exact value.
AnchorCalldata(start, end, root, txid, ts) ==
    <<AnchorSel, start, end, root, BtcTxIDToBytes32(txid), ts>>

-----------------------------------------------------------------------------
(* Decoders.  Each accepts calldata at least as long as its layout and    *)
(* ignores what follows; a shorter one (or a wrong selector) gives        *)
(* ErrInvalidOTSTx, and the record is read only from calldata that fits. *)

\* matchSelector via IsOTSSubmittedTx / IsOTSConfirmedTx / IsAnchorTx.
HasSelector(data, sel) == Len(data) >= 1 /\ data[1] = sel

\* DecodeOTSSubmittedTx: len(data) >= 68 and the selector.
SubmittedFits(data) == Len(data) >= 3 /\ HasSelector(data, SubmittedSel)
DecodeOTSSubmitted(data) == [root |-> data[2], digest |-> data[3]]

\* Variant of ConfirmedFits that wants the anchor's 164 bytes.
ConfirmedFitsLong(data) == Len(data) >= 6 /\ HasSelector(data, ConfirmedSel)

\* DecodeOTSConfirmedTx: len(data) >= 132 and the selector.
ConfirmedFits(data) == Len(data) >= 5 /\ HasSelector(data, ConfirmedSel)
DecodeOTSConfirmed(data) ==
    [root |-> data[2], height |-> WordUint(data[3]),
     txid |-> data[4], ts |-> WordUint(data[5])]

\* DecodeCalldata: len(data) >= 164; the selector is not checked.
AnchorFits(data) == Len(data) >= 6
DecodeAnchor(data) ==
    [start |-> WordUint(data[2]), end |-> WordUint(data[3]),
     root |-> data[4], btcTxHash |-> data[5], ts |-> WordUint(data[6])]

\* Validator.ValidateSystemTx on a tx these builders create (gas price 0,
\* the registry as recipient): at least a selector, and it must be
\* anchor's.
ValidateSystemTxData(data) == Len(data) >= 1 /\ data[1] = AnchorSel

=============================================================================
