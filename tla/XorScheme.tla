----------------------------- MODULE XorScheme -----------------------------
(***************************************************************************)
(* The XOR scheme: the repair payload is the XOR of the source payloads,   *)
(* padded to the longest, followed by the XOR of their lengths.  Where the *)
(* lengths are is not transmitted: the receiver takes it from              *)
(* biggestSourceSymbolLenSoFar.                                            *)
(*                                                                         *)
(* A payload is a sequence of tokens.  A position of a buffer holds the    *)
(* set of the tokens XORed into it, an even number of times being none, so *)
(* that XOR is symmetric difference and 0 is {}.  The two bytes of a       *)
(* length are one position, holding tokens of kind "length".               *)
(***************************************************************************)
EXTENDS Integers, Sequences, FiniteSets, FiniteSetsExt

RepairPayloadMetadataLen == 1

Length(n) == [kind |-> "length", off |-> 0, len |-> n]
Garbage == [kind |-> "garbage", off |-> 0, len |-> -1]
Zeros(n) == [i \in 1 .. n |-> {}]

\* xorRepair, also the first loop of xor.
xorRepair(soFar, tokens) ==
    [i \in DOMAIN soFar |-> IF i \in DOMAIN tokens THEN SymDiff(soFar[i], tokens[i]) ELSE soFar[i]]

\* xor: the payload, and its length at the position after big.
xor(soFar, payload, big) ==
    [xorRepair(soFar, [i \in DOMAIN payload |-> {payload[i]}])
        EXCEPT ![big + 1] = SymDiff(@, {Length(Len(payload))})]

\* The order in which the map of payloads is walked plays no role.
xorAll(soFar, payloads, ssids, big) ==
    MapThenFoldSet(LAMBDA s, acc : xor(acc, payloads[s], big), soFar,
                   LAMBDA s : s, LAMBDA S : CHOOSE s \in S : TRUE, ssids)

repairSymbols(payloads, big) ==
    xorAll(Zeros(big + RepairPayloadMetadataLen), payloads, DOMAIN payloads, big)

\* What a receiver reads at a position: the token there, if it is just one.
read(position) ==
    IF Cardinality(position) = 1 THEN CHOOSE t \in position : TRUE ELSE Garbage

\* Mutant: the recovered buffer is not trimmed to the recovered length.
recoverUntrimmed(payloads, ssids, repair, big) ==
    LET buffer == xorAll(repair, payloads, ssids, big)
    IN  [i \in 1 .. big |-> read(buffer[i])]

\* recoverSymbolPayloads: XOR everything and cut at the length found there.
\* What is cut off is zero, whatever the order of arrival, if the length is right.
recoverSymbolPayloads(payloads, ssids, repair, big) ==
    LET buffer == xorAll(repair, payloads, ssids, big)
        payloadLen == read(buffer[big + 1])
    IN  [i \in 1 .. (IF payloadLen.kind = "length" THEN payloadLen.len ELSE big) |-> read(buffer[i])]
=============================================================================
