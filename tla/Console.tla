------------------------------ MODULE Console ------------------------------
(***************************************************************************)
(* Writing and reading a file at the terminal (write_file, read_file in    *)
(* Code/sfs.c), which encrypt a file whose name ends in .enc.  The dialogs *)
(* of the user interface have copies without the encryption and call       *)
(* neither; this is the only use of the cipher.                            *)
(*                                                                         *)
(* One file, that the path has led to.  What is typed comes in pieces of   *)
(* AES_BLOCK_SIZE bytes, the last of them padded with the zeros that the   *)
(* buffer holds; a block is a number of pieces.  No one else takes blocks. *)
(***************************************************************************)
EXTENDS Aes

CONSTANTS
    BlockPieces,        \* BLOCK_SIZE / AES_BLOCK_SIZE
    MAX_BLOCK_COUNT,
    Capacity,           \* free blocks at the start
    Pieces,             \* what can be typed: pieces without a zero byte,
    Tails,              \* and parts of a piece, padded, to end with
    Behind              \* what may follow the buffer in memory, up to a zero byte

Zero == [n \in 1 .. 16 |-> {}]

ASSUME SizesAssumption ==
    /\ BlockPieces \in Nat \ {0}
    /\ MAX_BLOCK_COUNT \in Nat \ {0}
    /\ Capacity \in Nat

ASSUME TypedAssumption ==
    /\ Pieces \subseteq [1 .. 16 -> Byte \ {{}}]
    /\ Tails \subseteq [1 .. 16 -> Byte]
    /\ Zero \in Tails /\ \A tail \in Tails : tail[16] = {}
    /\ Behind \subseteq Seq(Byte \ {{}}) /\ Behind # {}

VARIABLES
    enc,            \* the name of the file ends in .enc
    blocks,         \* what the slots of the stored inode lead to
    free,           \* free blocks
    mode,           \* "menu", "typing", "shown", "crashed"
    object,         \* the blocks of file_inode
    block_index,
    data,           \* what the buffer holds
    shown,          \* what was printed, block by block
    typed           \* what was last typed for each slot

vars == <<enc, blocks, free, mode, object, block_index, data, shown, typed>>

Init ==
    /\ enc \in BOOLEAN
    /\ blocks = <<>>
    /\ free = Capacity
    /\ mode = "menu"
    /\ object = <<>>
    /\ block_index = 1
    /\ data = <<>>
    /\ shown = <<>>
    /\ typed = <<>>

-----------------------------------------------------------------------------
(* The cipher over a block *)

\* The key is written out in the code: the bytes 0 to 31.
key == [n \in 1 .. 32 |-> Bits(n - 1)]
exp_key == aes_key_expansion(key, Nk(32), Nr(32))

\* A seeded fault: one piece is encrypted.
EncryptFirst(block) ==
    [k \in DOMAIN block |-> IF k = 1 THEN aes_cipher(block[k], exp_key, Nr(32)) ELSE block[k]]

aes_encrypt(block) == [k \in DOMAIN block |-> aes_cipher(block[k], exp_key, Nr(32))]
aes_decrypt(block) == [k \in DOMAIN block |-> aes_inv_cipher(block[k], exp_key, Nr(32))]

\* Where a whole block was typed the inverse cipher of a piece of zeros is put
\* over its first piece.
Spoil(block) == [block EXCEPT ![1] = aes_inv_cipher(Zero, exp_key, Nr(32))]

Padded(pieces) == [k \in 1 .. BlockPieces |-> IF k <= Len(pieces) THEN pieces[k] ELSE Zero]

\* A block up to its first zero byte.
Text(block) ==
    LET bytes == FlattenSeq(block)
        zeros == {n \in DOMAIN bytes : bytes[n] = {}}
    IN IF zeros = {} THEN bytes ELSE SubSeq(bytes, 1, Min(zeros) - 1)

Ended(block) == \E k \in DOMAIN block, n \in 1 .. 16 : block[k][n] = {}

\* What printf("%s") prints: with no zero byte in the block it goes on behind it.
Printed(block, more) == IF Ended(block) THEN Text(block) ELSE Text(block) \o more

-----------------------------------------------------------------------------
(* write_file *)

\* Slot s of a sequence of slots, of which the ones before it are used.
WithSlot(seq, s, v) == IF s <= Len(seq) THEN [seq EXCEPT ![s] = v] ELSE Append(seq, v)

NewBlock(s) ==
    /\ free > 0
    /\ free' = free - 1
    /\ block_index' = s
    /\ data' = <<>>

\* Without a free block nothing is written.
WriteFile ==
    /\ mode = "menu"
    /\ mode' = "typing"
    /\ NewBlock(1)
    /\ object' = WithSlot(blocks, 1, Padded(<<>>))
    /\ UNCHANGED <<enc, blocks, shown, typed>>

TypePiece(p) ==
    /\ mode = "typing"
    /\ Len(data) + 1 < BlockPieces
    /\ data' = Append(data, p)
    /\ UNCHANGED <<enc, blocks, free, mode, object, block_index, shown, typed>>

CloseFile(obj) ==
    /\ blocks' = obj
    /\ mode' = "menu"
    /\ object' = <<>>
    /\ block_index' = 1
    /\ data' = <<>>

\* The block is full: it is written, and the next one is taken without looking
\* whether there is one.
FillBlock(p) ==
    /\ mode = "typing"
    /\ Len(data) + 1 = BlockPieces
    /\ LET whole   == Append(data, p)
           written == [object EXCEPT ![block_index] = IF enc THEN Spoil(whole) ELSE whole]
       IN /\ typed' = WithSlot(typed, block_index, FlattenSeq(whole))
          /\ \/ /\ block_index = MAX_BLOCK_COUNT
                /\ CloseFile(written)
                /\ UNCHANGED free
             \/ /\ block_index < MAX_BLOCK_COUNT
                /\ NewBlock(block_index + 1)
                /\ object' = WithSlot(written, block_index + 1, Padded(<<>>))
                /\ UNCHANGED <<blocks, mode>>
             \/ /\ block_index < MAX_BLOCK_COUNT
                /\ free = 0
                /\ mode' = "crashed"
                /\ UNCHANGED <<blocks, free, object, block_index, data>>
    /\ UNCHANGED <<enc, shown>>

\* Esc.
FinishWrite(tail) ==
    /\ mode = "typing"
    /\ LET block == Padded(Append(data, tail))
       IN /\ CloseFile([object EXCEPT ![block_index] = IF enc THEN aes_encrypt(block) ELSE block])
          /\ typed' = WithSlot(typed, block_index, Text(block))
    /\ UNCHANGED <<enc, free, shown>>

-----------------------------------------------------------------------------
(* read_file *)

Clear(block) == IF enc THEN aes_decrypt(block) ELSE block

\* A seeded fault: only a last block is decrypted.
ReadLastOnly ==
    /\ mode = "menu"
    /\ mode' = "shown"
    /\ \E more \in [DOMAIN blocks -> Behind] :
          shown' = [s \in DOMAIN blocks |->
             Printed(IF s = Len(blocks) THEN Clear(blocks[s]) ELSE blocks[s], more[s])]
    /\ UNCHANGED <<enc, blocks, free, object, block_index, data, typed>>

ReadFile ==
    /\ mode = "menu"
    /\ mode' = "shown"
    /\ \E more \in [DOMAIN blocks -> Behind] :
          shown' = [s \in DOMAIN blocks |-> Printed(Clear(blocks[s]), more[s])]
    /\ UNCHANGED <<enc, blocks, free, object, block_index, data, typed>>

Return ==
    /\ mode = "shown"
    /\ mode' = "menu"
    /\ shown' = <<>>
    /\ UNCHANGED <<enc, blocks, free, object, block_index, data, typed>>

Next ==
    \/ WriteFile
    \/ \E p \in Pieces : TypePiece(p) \/ FillBlock(p)
    \/ \E tail \in Tails : FinishWrite(tail)
    \/ ReadFile
    \/ Return

Spec == Init /\ [][Next]_vars

-----------------------------------------------------------------------------
(* Properties *)

\* Enough was typed for slot s to fill its block.
Whole(s) == Len(typed[s]) = 16 * BlockPieces

\* Reading shows what was last typed for each slot, the tail of a longer older
\* text too; after a block that was typed whole there may be more, and of an
\* encrypted file such a block is lost.
ReadsBack ==
    mode = "shown" =>
        /\ DOMAIN shown = DOMAIN typed
        /\ \A s \in DOMAIN shown :
              \/ shown[s] = typed[s]
              \/ Whole(s) /\ \E more \in Behind : shown[s] = typed[s] \o more
              \/ Whole(s) /\ enc

\* No piece of a block that write_data_to_file encrypts is on the disk as it
\* was typed: those after the first are as well hidden as the first.
Concealed ==
    mode = "menu" /\ enc =>
        \A s \in DOMAIN blocks : \A k \in 1 .. BlockPieces :
            Whole(s) \/ blocks[s][k] \notin Pieces \cup Tails

\* The three examples of FIPS 197, in both directions: a key of 16, 24 and 32
\* bytes, counting up, and the bytes 00, 11, ... ff.  They bring together the
\* boxes, the key, the rounds and their order.
Answer(key_size) ==
    CASE key_size = 16 -> <<105, 196, 224, 216, 106, 123, 4, 48, 216, 205, 183, 128, 112, 180, 197, 90>>
      [] key_size = 24 -> <<221, 169, 124, 164, 134, 76, 223, 224, 110, 175, 112, 160, 236, 13, 113, 145>>
      [] key_size = 32 -> <<142, 162, 183, 202, 81, 103, 69, 191, 234, 252, 73, 144, 75, 73, 96, 137>>

KnownAnswers ==
    mode = "menu" /\ blocks = <<>> =>
        \A size \in {16, 24, 32} :
            LET w  == aes_key_expansion([n \in 1 .. size |-> Bits(n - 1)], Nk(size), Nr(size))
                in == [n \in 1 .. 16 |-> Bits(17 * (n - 1))]
                out == [n \in 1 .. 16 |-> Bits(Answer(size)[n])]
            IN /\ aes_cipher(in, w, Nr(size)) = out
               /\ aes_inv_cipher(out, w, Nr(size)) = in

\* The table of the inverse is that of the other.
BoxesInverse == \A b \in Byte : inv_s_box[s_box[b]] = b

\* The table of the S-box is the one its definition gives, at all 256 bytes:
\* undoing the affine map gives the inverse in the field.  The other table is
\* its inverse.
Unmapped(b) == {n \in 0 .. 7 : Cardinality(b \cap {(n + 2) % 8, (n + 5) % 8, (n + 7) % 8}) % 2 = 1}

BoxesRight ==
    mode = "menu" /\ blocks = <<>> =>
        /\ BoxesInverse
        /\ \A b \in Byte :
               LET c == Unmapped(s_box[b]) ++ {0, 2}
               IN IF b = {} THEN c = {} ELSE gmult(b, c) = {0}

\* The product of bytes is that of polynomials less a multiple of
\* x^8 + x^4 + x^3 + x + 1, for every byte and the factors the code uses.
Product(a, b) ==
    {n \in 0 .. 14 : Cardinality({k \in b : n - k \in a}) % 2 = 1}

FieldRight ==
    mode = "menu" /\ blocks = <<>> =>
        \A a \in Byte, c \in {1, 2, 3, 9, 11, 13, 14} :
            \E q \in SUBSET (0 .. 2) :
                Product(a, Bits(c)) = gmult(a, Bits(c)) ++ Product({0, 1, 3, 4, 8}, q)
=============================================================================
