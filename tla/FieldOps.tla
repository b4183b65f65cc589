------------------------------ MODULE FieldOps ------------------------------
(***************************************************************************)
(* The arithmetic the circuits are written over, as the crates the source  *)
(* imports provide it: a prime field, its degree two extension with        *)
(* X^2 = W, and a width eight permutation.  The deployment's field has     *)
(* 2^64 - 2^32 + 1 elements and its permutation is Poseidon2.  Here the    *)
(* field is small and the permutation a two round mixing map: every output *)
(* lane moves with every input lane, which is all the checks tell apart.   *)
(***************************************************************************)
EXTENDS Integers, Sequences

CONSTANTS P,      \* the field's size, a prime
          W       \* the non-residue the extension is built on

F == 0..(P - 1)

Fe(x) == x % P

\* Square and multiply.
FPow(b, e) ==
    LET pow[k \in Nat] ==
            IF k = 0 THEN 1
            ELSE LET h == pow[k \div 2]
                 IN ((((h * h) % P) * (IF k % 2 = 1 THEN b ELSE 1)) % P)
    IN pow[e]

FInv(x) == FPow(x, P - 2)

(***************************************************************************)
(* The extension.  An element is a pair of coordinates.                    *)
(***************************************************************************)
EAdd(a, b) == <<Fe(a[1] + b[1]), Fe(a[2] + b[2])>>
ESub(a, b) == <<Fe(a[1] - b[1]), Fe(a[2] - b[2])>>
EMul(a, b) == <<Fe(Fe(a[1] * b[1]) + Fe(W * Fe(a[2] * b[2]))),
                Fe(Fe(a[1] * b[2]) + Fe(a[2] * b[1]))>>
EInv(a) == LET n == FInv(Fe(Fe(a[1] * a[1]) - Fe(W * Fe(a[2] * a[2]))))
           IN <<Fe(a[1] * n), Fe((P - a[2]) * n)>>

(***************************************************************************)
(* The permutation, one call laid out as the hash chip lays it out: the    *)
(* input lanes, one column for the rounds between, the output lanes.       *)
(***************************************************************************)
WIDTH == 8

Cube(x) == Fe(Fe(x * x) * x)

\* The same sequence, as a tuple: TLC then evaluates each element once.
Eager(s) == s \o <<>>

MixLanes(c) ==
    Eager([j \in 1..WIDTH |->
            (  (j * 5 + 1) * c[1] + (j * j + 7) * c[2] + (j * 11 + 2) * c[3]
             + (j * j + 3) * c[4] + (j * 13 + 5) * c[5] + (j * j * 2 + 9) * c[6]
             + (j * 3 + 29) * c[7] + (j * j * 3 + 1) * c[8] + 101 * j) % P])

Mix(s) == MixLanes(Eager([i \in 1..WIDTH |-> Cube(Fe(s[i] + 17 * i))]))

Permute(s) == Mix(Mix(s))

\* The row of the permutation of s whose first round gives m.
Permuted(s, m) == s \o <<Fe(m[1] + 3 * m[2] + 9 * m[5])>> \o Mix(m)

perm_row(s) == Permuted(s, Mix(s))

BlockWidth == 2 * WIDTH + 1
output_offset == WIDTH + 1

perm_output(block) == SubSeq(block, output_offset + 1, BlockWidth)

=============================================================================
