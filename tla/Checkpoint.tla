---------------------------- MODULE Checkpoint ----------------------------
(***************************************************************************)
(* The checkpoint format (src/checkpoint.c) as operators.  A file is a     *)
(* sequence of words, one for each field the code writes.  A double is its *)
(* bit pattern: the sign is the bit of weight 8, magnitude 7 is an         *)
(* infinity, so that 8 is minus zero.  A key is a signed integer of        *)
(* KeyModulus values and is written as an unsigned one.  A node is         *)
(* [regret_sums, strategy_sums].                                           *)
(***************************************************************************)
EXTENDS Integers, Sequences, FiniteSets

CONSTANTS
    KeyModulus,         \* 2^64
    MaxLegalActions,    \* game->max_legal_actions
    SchemaId            \* game->strategy_schema_id, its characters

SchemaIdMaxLength == 3  \* 255

ASSUME FormatAssumption ==
    /\ KeyModulus \in Nat \ {0} /\ KeyModulus % 2 = 0
    /\ MaxLegalActions \in Nat
    /\ SchemaId \in Seq(Nat) /\ Len(SchemaId) \in 1 .. SchemaIdMaxLength

Magic == 67
Version == 1
FrameStart == -1        \* the Zstandard frame around a payload
FrameEnd == -2

Variants == {"CFR", "CFR_PLUS", "MCCFR_EXTERNAL"}
VariantCode == [CFR |-> 0, CFR_PLUS |-> 1, MCCFR_EXTERNAL |-> 2]

IsFinite(bits) == bits % 8 # 7
IsNegative(bits) == bits > 8    \* minus zero is not below zero

EncodeKey(key) == key % KeyModulus

DecodeKey(encoded) ==
    IF encoded <= KeyModulus \div 2 - 1 THEN encoded
    ELSE -(KeyModulus - 1 - encoded) - 1

\* Stands for the CRC-32: like it, it tells apart two sequences that differ in one word.
Checksum(words) ==
    LET after[n \in 0 .. Len(words)] ==
            IF n = 0 THEN 1 ELSE (after[n - 1] * 31 + words[n] + 1) % 8191
    IN  after[Len(words)]

-----------------------------------------------------------------------------
\* Writing

\* validate_node
ValidNode(node, variant) ==
    /\ Len(node.regret_sums) \in 1 .. MaxLegalActions
    /\ \A a \in DOMAIN node.regret_sums :
          /\ IsFinite(node.regret_sums[a]) /\ IsFinite(node.strategy_sums[a])
          /\ ~IsNegative(node.strategy_sums[a])
          /\ variant = "CFR_PLUS" => ~IsNegative(node.regret_sums[a])

\* What is written before the records; count is the number of nodes collected.
Header(t, count) ==
    <<Magic, Version, Len(SchemaId)>> \o SchemaId \o <<VariantCode[t.variant]>>
    \o (IF t.variant = "MCCFR_EXTERNAL" THEN <<t.rng>> ELSE <<>>)
    \o <<t.training_iterations>> \o t.stats \o <<count>>

Record(key, node) ==
    <<EncodeKey(key), Len(node.regret_sums)>> \o node.regret_sums \o node.strategy_sums

\* The keys of a store in the order of cfr_info_store_snapshot_sorted.
SortedKeys(nodes) ==
    CHOOSE s \in [1 .. Cardinality(DOMAIN nodes) -> DOMAIN nodes] :
        \A i, j \in DOMAIN s : i < j => s[i] < s[j]

\* What was written after the first n rows.
Joined(first, rows, n) ==
    LET words[i \in 0 .. n] == IF i = 0 THEN first ELSE words[i - 1] \o rows[i]
    IN  words[n]

Sealed(words) == Append(words, Checksum(words))

\* The payload of a store that does not change meanwhile.
Payload(t, nodes) ==
    LET keys == SortedKeys(nodes)
        records == [i \in DOMAIN keys |-> Record(keys[i], nodes[keys[i]])]
    IN  Sealed(Joined(Header(t, Len(keys)), records, Len(keys)))

\* cfr_checkpoint_write_zstd puts the same payload into one frame.
Framed(words, zstd) == IF zstd THEN <<FrameStart>> \o words \o <<FrameEnd>> ELSE words

-----------------------------------------------------------------------------
\* Reading.  A reader is [status, pos, variant, rng, training_iterations, stats, left, nodes]:
\* the next word, what the header said, the records left, and the temporary store.

\* What zstd_read_bytes gives the reader: the payload up to the end of the frame, or up to
\* where the file ends.
Unframed(file, zstd) ==
    IF ~zstd THEN file
    ELSE LET ends == {i \in DOMAIN file : file[i] = FrameEnd}
             last == IF ends = {} THEN Len(file)
                     ELSE (CHOOSE i \in ends : \A j \in ends : i <= j) - 1
         IN  IF file = <<>> \/ file[1] # FrameStart THEN <<>> ELSE SubSeq(file, 2, last)

\* zstd_check_stream_end, or the read of one byte after the checksum: nothing is left.
EndsCleanly(file, zstd, pos) ==
    IF zstd THEN Len(file) = pos + 1 /\ file[Len(file)] = FrameEnd ELSE Len(file) = pos - 1

Failed(r, status) == [r EXCEPT !.status = status]

NewReader == [status |-> "SUCCESS", pos |-> 1, variant |-> "CFR", rng |-> 0,
              training_iterations |-> 0, stats |-> <<0, 0, 0, 0>>, left |-> 0, nodes |-> <<>>]

\* Mutant: the random state is read and forgotten.
HeaderFieldsNoRng(words, size, variant) ==
    [NewReader EXCEPT !.pos = size + 7, !.variant = variant,
                      !.training_iterations = words[size + 1],
                      !.stats = SubSeq(words, size + 2, size + 5), !.left = words[size + 6]]

\* The variant, the random state of MCCFR, which ends at size, and the six sizes after it.
HeaderFields(words, size, variant) ==
    [status |-> "SUCCESS", pos |-> size + 7, variant |-> variant,
     rng |-> IF variant = "MCCFR_EXTERNAL" THEN words[size] ELSE 0,
     training_iterations |-> words[size + 1], stats |-> SubSeq(words, size + 2, size + 5),
     left |-> words[size + 6], nodes |-> <<>>]

\* read_header: a word that is missing is a FORMAT_ERROR.
ReadHeader(words) ==
    LET present(n) == Len(words) >= n
        at == 3 + words[3]
        known == \E v \in Variants : VariantCode[v] = words[at + 1]
        name == CHOOSE v \in Variants : VariantCode[v] = words[at + 1]
        size == at + 1 + (IF name = "MCCFR_EXTERNAL" THEN 1 ELSE 0)
    IN  IF ~(/\ present(3) /\ words[1] = Magic /\ words[2] = Version
             /\ words[3] \in 1 .. SchemaIdMaxLength /\ present(at))
        THEN Failed(NewReader, "FORMAT_ERROR")
        ELSE IF SubSeq(words, 4, at) # SchemaId
        THEN Failed(NewReader, "INCOMPATIBLE_GAME")
        ELSE IF ~(present(at + 1) /\ known /\ present(size + 6))
        THEN Failed(NewReader, "FORMAT_ERROR")
        ELSE HeaderFields(words, size, name)

\* read_node: the record goes into the temporary store, unless it is damaged or its key
\* is already there.
ReadNode(words, r) ==
    LET at == r.pos
        count == words[at + 1]
        key == DecodeKey(words[at])
        next == at + 2 + 2 * count
        node == [regret_sums |-> SubSeq(words, at + 2, at + 1 + count),
                 strategy_sums |-> SubSeq(words, at + 2 + count, next - 1)]
    IN  IF /\ Len(words) >= at + 1
           /\ count \in 1 .. MaxLegalActions
           /\ key \notin DOMAIN r.nodes
           /\ Len(words) >= next - 1
           /\ ValidNode(node, r.variant)
        THEN [r EXCEPT !.pos = next, !.left = @ - 1,
                       !.nodes = [k \in DOMAIN r.nodes \cup {key} |->
                                     IF k = key THEN node ELSE r.nodes[k]]]
        ELSE Failed(r, "FORMAT_ERROR")

\* read_checksum and the comparison.
ReadChecksum(words, r) ==
    IF Len(words) >= r.pos /\ words[r.pos] = Checksum(SubSeq(words, 1, r.pos - 1))
    THEN [r EXCEPT !.pos = @ + 1] ELSE Failed(r, "FORMAT_ERROR")

\* The whole of checkpoint_read when nothing but the file can fail.
Read(file, zstd) ==
    LET words == Unframed(file, zstd)
        header == ReadHeader(words)
        steps == IF header.status = "SUCCESS" /\ header.left <= Len(words) THEN header.left ELSE 0
        after[n \in 0 .. steps] ==
            IF n = 0 THEN header
            ELSE IF after[n - 1].status = "SUCCESS" THEN ReadNode(words, after[n - 1])
            ELSE after[n - 1]
        last == after[steps]
        checked == ReadChecksum(words, last)
    IN  CASE last.status # "SUCCESS" -> last
          [] last.status = "SUCCESS" /\ last.left # 0 -> Failed(last, "FORMAT_ERROR")
          [] OTHER -> IF checked.status = "SUCCESS" /\ ~EndsCleanly(file, zstd, checked.pos)
                      THEN Failed(checked, "FORMAT_ERROR") ELSE checked

=============================================================================
