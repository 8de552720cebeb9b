------------------------------ MODULE References ------------------------------
(***************************************************************************)
(* libstore/references.cc: RefScanSink, which finds the hashes of store    *)
(* paths in a stream, and RewritingSink, which replaces them.  The stream  *)
(* arrives in fragments of any size.  A character is a number; 0 is not a  *)
(* character of base-32.                                                   *)
(***************************************************************************)
EXTENDS Naturals, Sequences, FiniteSets, SequencesExt

CONSTANTS
    Characters, MaxLength,      \* bounds on the streams
    RefLength,                  \* StorePath::HashLen
    Hashes,                     \* what RefScanSink looks for
    Rewrites                    \* what RewritingSink replaces: pairs, in order.  With more
                                \* than one, what a later pair searches for or puts in must
                                \* not end in a beginning of what an earlier one searches for

\* The hash part of a store path is of base-32 (StorePath's constructor).
ASSUME ReferencesAssumption ==
    /\ RefLength \in Nat \ {0}
    /\ Hashes \subseteq [1 .. RefLength -> Characters \ {0}]
    /\ Rewrites \in Seq(Seq(Characters) \X Seq(Characters))
    /\ \A i \in DOMAIN Rewrites : Len(Rewrites[i][1]) = Len(Rewrites[i][2])

VARIABLES
    input, given,               \* the stream, and how much of it has been given
    hashes, seen, tail,         \* RefScanSink
    prev, out,                  \* RewritingSink; out is what nextSink got
    finished

referenceVars == <<input, given, hashes, seen, tail, prev, out, finished>>

ReferencesInit ==
    /\ input \in UNION {[1 .. n -> Characters] : n \in 0 .. MaxLength}
    /\ given = 0 /\ hashes = Hashes /\ seen = {} /\ tail = <<>>
    /\ prev = <<>> /\ out = <<>>
    /\ finished = FALSE

First(s, n) == SubSeq(s, 1, n)
Final(s, n) == SubSeq(s, Len(s) - n + 1, Len(s))
Shorter(a, b) == IF a < b THEN a ELSE b

\* The positions in the substring from i on of what is not of base-32.
NotBase32(s, i) == {j \in i .. i + RefLength - 1 : s[j] = 0}

\* search(): the substrings that are looked up.  If one holds a character that is
\* not of base-32, the search goes on behind it.
Search(s) ==
    LET from[i \in 1 .. Len(s) + 1] ==
          IF i + RefLength - 1 > Len(s) THEN {}
          ELSE IF NotBase32(s, i) = {} THEN {SubSeq(s, i, i + RefLength - 1)} \cup from[i + 1]
          ELSE from[1 + Max(NotBase32(s, i))]
    IN  from[1]

\* Mutant of KeptTail: the tail is the end of the last fragment only.
TailOfData(data) == Final(data, Shorter(Len(data), RefLength))

\* The new tail: the end of the old one and of the data.
KeptTail(data) ==
    LET tailLen == Shorter(Len(data), RefLength)
        rest == RefLength - tailLen
    IN  (IF rest < Len(tail) THEN Final(tail, rest) ELSE tail) \o Final(data, tailLen)

Scan(data) ==
    LET found == hashes \cap (Search(tail \o First(data, Shorter(Len(data), RefLength)))
                              \cup Search(data))
    IN  /\ hashes' = hashes \ found
        /\ seen' = seen \cup found
        /\ tail' = KeptTail(data)

\* The string from occurs in s at position j.
Occurs(s, from, j) ==
    /\ j + Len(from) - 1 <= Len(s)
    /\ \A i \in 1 .. Len(from) : s[j + i - 1] = from[i]

\* The replacement of what is at position j by a string of the same length.
ReplacedAt(s, to, j) ==
    [i \in 1 .. Len(s) |-> IF i \in j .. j + Len(to) - 1 THEN to[i - j + 1] ELSE s[i]]

\* One loop of rewriteStrings: the string after the search up to position j.
Replaced(s, pair) ==
    LET upTo[j \in 0 .. Len(s)] ==
          IF j = 0 THEN s
          ELSE LET t == upTo[j - 1]
               IN  IF Occurs(t, pair[1], j) THEN ReplacedAt(t, pair[2], j) ELSE t
    IN  upTo[Len(s)]

\* The string after the first k pairs.
RewriteStrings(s) ==
    LET after[k \in 0 .. Len(Rewrites)] ==
          IF k = 0 THEN s ELSE Replaced(after[k - 1], Rewrites[k])
    IN  after[Len(Rewrites)]

MaxRewriteSize ==
    LET sizes == {0} \cup {Len(Rewrites[i][1]) : i \in DOMAIN Rewrites}
    IN  CHOOSE n \in sizes : \A k \in sizes : k <= n

\* Mutant of Held: one character less is held back.
HeldShort(s) == IF Len(s) < MaxRewriteSize THEN s
                ELSE IF MaxRewriteSize < 2 THEN <<>> ELSE Final(s, MaxRewriteSize - 2)

\* What RewritingSink holds back, since it may be the start of an occurrence.
Held(s) == IF Len(s) < MaxRewriteSize THEN s
           ELSE IF MaxRewriteSize = 0 THEN <<>> ELSE Final(s, MaxRewriteSize - 1)

Rewrite(data) ==
    LET s == RewriteStrings(prev \o data)
    IN  /\ prev' = Held(s)
        /\ out' = out \o First(s, Len(s) - Len(Held(s)))

Fragment ==
    /\ ~finished
    /\ \E n \in 0 .. Len(input) - given :
        LET data == SubSeq(input, given + 1, given + n)
        IN  /\ given' = given + n
            /\ Scan(data) /\ Rewrite(data)
    /\ UNCHANGED <<input, finished>>

\* RewritingSink::flush, or HashModuloSink::finish.
FlushSink ==
    /\ given = Len(input) /\ ~finished
    /\ out' = out \o prev
    /\ prev' = <<>>
    /\ finished' = TRUE
    /\ UNCHANGED <<input, given, hashes, seen, tail>>

ReferencesNext == Fragment \/ FlushSink

ReferencesSpec == ReferencesInit /\ [][ReferencesNext]_referenceVars

-----------------------------------------------------------------------------
\* RefScanSink has found exactly the hashes that occur in what it was given, however
\* the stream was cut.
ScanExact ==
    LET s == First(input, given)
    IN  seen = {h \in Hashes : \E i \in 1 .. Len(s) - RefLength + 1 :
                                  SubSeq(s, i, i + RefLength - 1) = h}

\* RewritingSink's output does not depend on how the stream was cut: it is that of
\* rewriteStrings on the whole.  For several pairs it holds under a condition that
\* nothing in the code ensures (see Rewrites): the
\* pairs are replaced one after the other in each fragment.
RewriteExact == finished => out = RewriteStrings(input)
=============================================================================
