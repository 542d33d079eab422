-------------------------------- MODULE Aes --------------------------------
(***************************************************************************)
(* The cipher for the files whose names end in .enc (Code/aes.c, aes.h):   *)
(* arithmetic of bytes, the expansion of a key, the rounds and their       *)
(* inverses.                                                               *)
(*                                                                         *)
(* A byte is the set of its bits that are 1, so that exclusive or is the   *)
(* symmetric difference.  The globals Nk and Nr, which aes_init sets, are  *)
(* parameters here.  A word is indexed from 0, as in C; state[Nb*i+j] of   *)
(* the code is state[<<i, j>>].                                            *)
(***************************************************************************)
EXTENDS Integers, Sequences, FiniteSets, SequencesExt, FiniteSetsExt

Byte == SUBSET (0 .. 7)

Bits(n)   == {k \in 0 .. 7 : (n \div 2^k) % 2 = 1}
Number(b) == MapThenSumSet(LAMBDA k : 2^k, b)

\* gsub is the same.
gadd(a, b) == (a \ b) \cup (b \ a)

\* The operator ^.
a ++ b == gadd(a, b)

Nb == 4
Index == 0 .. Nb - 1
Cells == Index \X Index
State == [Cells -> Byte]
Word  == [Index -> Byte]

\* aes_init: any other size is taken for 16.
Nk(key_size) == CASE key_size = 24 -> 6 [] key_size = 32 -> 8 [] OTHER -> 4
Nr(key_size) == CASE key_size = 24 -> 12 [] key_size = 32 -> 14 [] OTHER -> 10

-----------------------------------------------------------------------------
(* Bytes and words *)

\* A seeded fault: what is carried in is that of another polynomial.
XTimeOther(a) == {n + 1 : n \in a \ {7}} ++ (IF 7 \in a THEN {0, 2, 3, 4} ELSE {})

\* One turn of the loop of gmult on a.
XTime(a) == {n + 1 : n \in a \ {7}} ++ (IF 7 \in a THEN {0, 1, 3, 4} ELSE {})

\* The loop of gmult: what a has become after k turns, and the sum p so far.
gmult(a, b) ==
    LET turn[k \in 0 .. 8] ==
            IF k = 0 THEN <<a, {}>>
            ELSE LET t == turn[k - 1]
                 IN <<XTime(t[1]), IF k - 1 \in b THEN t[2] ++ t[1] ELSE t[2]>>
    IN turn[8][2]

coef_add(a, b) == [i \in Index |-> a[i] ++ b[i]]

coef_mult(a, b) ==
    [i \in Index |-> gmult(a[i], b[0]) ++ gmult(a[(i - 1) % 4], b[1])
                        ++ gmult(a[(i - 2) % 4], b[2]) ++ gmult(a[(i - 3) % 4], b[3])]

\* i is never 0.
Rcon(i) ==
    LET double == [b \in Byte |-> gmult(b, Bits(2))]
        power[n \in 1 .. i] == IF n = 1 THEN Bits(1) ELSE double[power[n - 1]]
    IN [k \in Index |-> IF k = 0 THEN power[i] ELSE {}]

SBoxTable ==
    <<  99, 124, 119, 123, 242, 107, 111, 197,  48,   1, 103,  43, 254, 215, 171, 118,
       202, 130, 201, 125, 250,  89,  71, 240, 173, 212, 162, 175, 156, 164, 114, 192,
       183, 253, 147,  38,  54,  63, 247, 204,  52, 165, 229, 241, 113, 216,  49,  21,
         4, 199,  35, 195,  24, 150,   5, 154,   7,  18, 128, 226, 235,  39, 178, 117,
         9, 131,  44,  26,  27, 110,  90, 160,  82,  59, 214, 179,  41, 227,  47, 132,
        83, 209,   0, 237,  32, 252, 177,  91, 106, 203, 190,  57,  74,  76,  88, 207,
       208, 239, 170, 251,  67,  77,  51, 133,  69, 249,   2, 127,  80,  60, 159, 168,
        81, 163,  64, 143, 146, 157,  56, 245, 188, 182, 218,  33,  16, 255, 243, 210,
       205,  12,  19, 236,  95, 151,  68,  23, 196, 167, 126,  61, 100,  93,  25, 115,
        96, 129,  79, 220,  34,  42, 144, 136,  70, 238, 184,  20, 222,  94,  11, 219,
       224,  50,  58,  10,  73,   6,  36,  92, 194, 211, 172,  98, 145, 149, 228, 121,
       231, 200,  55, 109, 141, 213,  78, 169, 108,  86, 244, 234, 101, 122, 174,   8,
       186, 120,  37,  46,  28, 166, 180, 198, 232, 221, 116,  31,  75, 189, 139, 138,
       112,  62, 181, 102,  72,   3, 246,  14,  97,  53,  87, 185, 134, 193,  29, 158,
       225, 248, 152,  17, 105, 217, 142, 148, 155,  30, 135, 233, 206,  85,  40, 223,
       140, 161, 137,  13, 191, 230,  66, 104,  65, 153,  45,  15, 176,  84, 187,  22 >>

InvSBoxTable ==
    <<  82,   9, 106, 213,  48,  54, 165,  56, 191,  64, 163, 158, 129, 243, 215, 251,
       124, 227,  57, 130, 155,  47, 255, 135,  52, 142,  67,  68, 196, 222, 233, 203,
        84, 123, 148,  50, 166, 194,  35,  61, 238,  76, 149,  11,  66, 250, 195,  78,
         8,  46, 161, 102,  40, 217,  36, 178, 118,  91, 162,  73, 109, 139, 209,  37,
       114, 248, 246, 100, 134, 104, 152,  22, 212, 164,  92, 204,  93, 101, 182, 146,
       108, 112,  72,  80, 253, 237, 185, 218,  94,  21,  70,  87, 167, 141, 157, 132,
       144, 216, 171,   0, 140, 188, 211,  10, 247, 228,  88,   5, 184, 179,  69,   6,
       208,  44,  30, 143, 202,  63,  15,   2, 193, 175, 189,   3,   1,  19, 138, 107,
        58, 145,  17,  65,  79, 103, 220, 234, 151, 242, 207, 206, 240, 180, 230, 115,
       150, 172, 116,  34, 231, 173,  53, 133, 226, 249,  55, 232,  28, 117, 223, 110,
        71, 241,  26, 113,  29,  41, 197, 137, 111, 183,  98,  14, 170,  24, 190,  27,
       252,  86,  62,  75, 198, 210, 121,  32, 154, 219, 192, 254, 120, 205,  90, 244,
        31, 221, 168,  51, 136,   7, 199,  49, 177,  18,  16,  89,  39, 128, 236,  95,
        96,  81, 127, 169,  25, 181,  74,  13,  45, 229, 122, 159, 147, 201, 156, 239,
       160, 224,  59,  77, 174,  42, 245, 176, 200, 235, 187,  60, 131,  83, 153,  97,
        23,  43,   4, 126, 186, 119, 214,  38, 225, 105,  20,  99,  85,  33,  12, 125 >>

\* A seeded fault: one byte of the table is wrong.
BoxMistyped == [b \in Byte |-> IF b = Bits(83) THEN Bits(236) ELSE Bits(SBoxTable[Number(b) + 1])]

s_box == [b \in Byte |-> Bits(SBoxTable[Number(b) + 1])]
inv_s_box == [b \in Byte |-> Bits(InvSBoxTable[Number(b) + 1])]

sub_word(w) == [i \in Index |-> s_box[w[i]]]
rot_word(w) == [i \in Index |-> w[(i + 1) % 4]]

-----------------------------------------------------------------------------
(* The key *)

\* A seeded fault: the word in the middle of a long key is not substituted.
TmpNoMiddle(tmp, i, nk) ==
    IF i % nk = 0 THEN coef_add(sub_word(rot_word(tmp)), Rcon(i \div nk)) ELSE tmp

\* What is added to word i - nk to make word i, from tmp, word i - 1.
Tmp(tmp, i, nk) ==
    IF i % nk = 0 THEN coef_add(sub_word(rot_word(tmp)), Rcon(i \div nk))
    ELSE IF nk > 6 /\ i % nk = 4 THEN sub_word(tmp) ELSE tmp

\* words[n]: the first n words; word i is entry i + 1.
aes_key_expansion(key, nk, nr) ==
    LET next  == [w \in Seq(Word) |->
                    Append(w, coef_add(w[Len(w) - nk + 1], Tmp(Last(w), Len(w), nk)))]
        words[n \in nk .. Nb * (nr + 1)] ==
            IF n = nk THEN [i \in 1 .. nk |-> [k \in Index |-> key[4 * (i - 1) + k + 1]]]
            ELSE next[words[n - 1]]
    IN words[Nb * (nr + 1)]

-----------------------------------------------------------------------------
(* The state *)

add_round_key(state, w, r) ==
    [p \in Cells |-> state[p] ++ w[Nb * r + p[2] + 1][p[1]]]

sub_bytes     == [state \in State |-> [p \in Cells |-> s_box[state[p]]]]
inv_sub_bytes == [state \in State |-> [p \in Cells |-> inv_s_box[state[p]]]]

shift_rows     == [state \in State |-> [p \in Cells |-> state[<<p[1], (p[2] + p[1]) % Nb>>]]]
inv_shift_rows == [state \in State |-> [p \in Cells |-> state[<<p[1], (p[2] - p[1]) % Nb>>]]]

MixWith(a, state) ==
    LET res == [j \in Index |-> coef_mult(a, [i \in Index |-> state[<<i, j>>]])]
    IN [p \in Cells |-> res[p[2]][p[1]]]

Coefficients(c) == [i \in Index |-> Bits(c[i + 1])]

mix_columns     == [state \in State |-> MixWith(Coefficients(<<2, 1, 1, 3>>), state)]
inv_mix_columns == [state \in State |-> MixWith(Coefficients(<<14, 9, 13, 11>>), state)]

-----------------------------------------------------------------------------
(* A piece of AES_BLOCK_SIZE bytes, and a run of pieces *)

Load(in)     == [p \in Cells |-> in[p[1] + 4 * p[2] + 1]]
Store(state) == [n \in 1 .. 16 |-> state[<<(n - 1) % 4, (n - 1) \div 4>>]]

aes_cipher(in, w, nr) ==
    LET state[r \in 0 .. nr] ==
            IF r = 0 THEN add_round_key(Load(in), w, 0)
            ELSE LET s == shift_rows[sub_bytes[state[r - 1]]]
                 IN add_round_key(IF r < nr THEN mix_columns[s] ELSE s, w, r)
    IN Store(state[nr])

\* After n rounds are undone.
aes_inv_cipher(in, w, nr) ==
    LET state[n \in 0 .. nr] ==
            IF n = 0 THEN add_round_key(Load(in), w, nr)
            ELSE LET s == add_round_key(inv_sub_bytes[inv_shift_rows[state[n - 1]]], w, nr - n)
                 IN IF n < nr THEN inv_mix_columns[s] ELSE s
    IN Store(state[nr])
=============================================================================
