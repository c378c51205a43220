----------------------------- MODULE PermEncoding -----------------------------
(***************************************************************************)
(* cuckoofilter/src/permencoding.h: the numbers of the sorted tuples of    *)
(* four nibbles. Nibbles are <<lowbits[0], ..., lowbits[3]>>; those that   *)
(* decode returns are sets of the positions of their one bits.             *)
(***************************************************************************)
EXTENDS Integers, SequencesExt

Lowbits(n) == {k \in 0 .. 3 : (n \div 2^k) % 2 = 1}

pack(lowbits) == lowbits[1] + 256 * lowbits[2] + 16 * lowbits[3] + 4096 * lowbits[4]

unpack(v) == <<Lowbits(v), Lowbits(v \div 256), Lowbits(v \div 16), Lowbits(v \div 4096)>>

\* The packed sorted tuples that start with dst and go on from base.
RECURSIVE gen_tables(_, _)
gen_tables(base, dst) ==
    IF Len(dst) = 4 THEN <<pack(dst)>>
    ELSE FlattenSeq([n \in 1 .. 16 - base |->
                        gen_tables(base + n - 1, Append(dst, base + n - 1))])

dec_table == gen_tables(0, <<>>)
N_ENTS == Len(dec_table)
enc_table == [v \in {dec_table[n] : n \in 1 .. N_ENTS} |->
                 (CHOOSE n \in 1 .. N_ENTS : dec_table[n] = v) - 1]

encode(lowbits) == enc_table[pack(lowbits)]

\* A number past the table reads what lies behind it: enc_table, from its
\* start, where only the nibbles of a sorted tuple have a number other than 0.
decode == [codeword \in 0 .. 4095 |->
             unpack(IF codeword < N_ENTS THEN dec_table[codeword + 1]
                    ELSE LET v == codeword - N_ENTS
                         IN  IF v \in DOMAIN enc_table THEN enc_table[v] ELSE 0)]
=============================================================================
