---------------------------- MODULE OutputsProofs ----------------------------
(***************************************************************************)
(* What registerOutputs registers is what is there, for any builders and   *)
(* builds.  The argument: the files at a path are changed by one builder   *)
(* only, the one whose derivation has the output or that has the lock on   *)
(* the path, and only while the path is not valid; and a valid path made   *)
(* from contents has those contents, whoever put them there.               *)
(***************************************************************************)
EXTENDS RegisterOutputs, TLAPS

-----------------------------------------------------------------------------
(* The inductive invariant                                                   *)

Image(rewrites, p) == IF p \in DOMAIN rewrites THEN rewrites[p] ELSE p

\* The contents that a path made from contents stands for.
Fill(p) == {IF q = Self THEN p ELSE q : q \in p[3]}

OutNames(b) == build[b].names
Known(b) == DOMAIN build[b].known
Infos(b) == bst[b].infos
InfoPaths(b) == {Infos(b)[o].path : o \in DOMAIN Infos(b)}

\* Where an output of b that has been done is.
Target(b, o) == IF o \in Known(b) THEN build[b].known[o] ELSE Infos(b)[o].path

\* The paths that nobody but b changes: they depend on its derivation, or it has
\* the lock.
Mine(b) ==
    OwnPaths(build[b]) \cup {p \in DOMAIN dynamicLock : dynamicLock[p] = b /\ p[1] = "ca"}

BuilderPoints ==
    {"built", "rejected", "next", "lock", "move", "delete", "rename", "finish", "unlock",
     "threw", "done", "killed"}

\* Record r is that of a builder.
IsRecord(r) ==
    r = [pc |-> r.pc, todo |-> r.todo, rewrites |-> r.rewrites, infos |-> r.infos, cur |-> r.cur]

ShapeInv(b) ==
    /\ IsRecord(bst[b])
    /\ bst[b].pc \in BuilderPoints \ {"threw"}
    /\ bst[b].todo \subseteq OutNames(b)
    /\ DOMAIN Infos(b) = (OutNames(b) \ bst[b].todo) \ Known(b)

\* The scratch paths of the outputs that have been done are rewritten to the final
\* ones, and nothing else is.
RewritesInv(b) ==
    /\ DOMAIN bst[b].rewrites \subseteq {build[b].scratch[o] : o \in OutNames(b) \ bst[b].todo}
    /\ \A o \in OutNames(b) \ bst[b].todo :
          Image(bst[b].rewrites, build[b].scratch[o]) = Target(b, o)

\* Info i is that of output o.
Describes(b, o, i) ==
    /\ i.refs = i.contents
    /\ i.refs \subseteq DOMAIN valid \cup InfoPaths(b) \cup {i.path}
    /\ build[b].ca => i.path[1] = "ca" /\ i.contents = Fill(i.path)
    /\ ~build[b].ca => i.path = build[b].final[o]

OnDisk(i) == i.path \in DOMAIN disk /\ disk[i.path] = i.contents

InfosInv(b) ==
    \A o \in DOMAIN Infos(b) : LET i == Infos(b)[o] IN
        Describes(b, o, i) /\ OnDisk(i) /\ (build[b].ca => i.path \in DOMAIN valid)

\* The output at hand.
CurInv(b) ==
    bst[b].pc \in {"lock", "move", "delete", "rename", "finish"} =>
        /\ bst[b].cur.name \in bst[b].todo \ Known(b)
        /\ Describes(b, bst[b].cur.name, Cur(b))
        /\ bst[b].pc = "lock" => build[b].ca
        /\ bst[b].pc # "lock" => Cur(b).path \in Mine(b)
        /\ bst[b].pc \in {"delete", "rename"} => Cur(b).path \notin DOMAIN valid
        /\ bst[b].pc = "finish" => OnDisk(Cur(b))

BuilderInv(b) == ShapeInv(b) /\ RewritesInv(b) /\ InfosInv(b) /\ CurInv(b)

ValidInv ==
    /\ \A p \in DOMAIN valid : p \in DOMAIN disk /\ disk[p] = valid[p] /\ valid[p] \subseteq DOMAIN valid
    /\ \A p \in DOMAIN valid : p[1] = "ca" => valid[p] = Fill(p)
    /\ ValidBefore(build) \subseteq DOMAIN valid
    /\ \A b \in Builders : bst[b].pc # "done" => OwnPaths(build[b]) \cap DOMAIN valid = {}

OutputsInv ==
    /\ build \in Builds /\ bst = [b \in Builders |-> bst[b]]
    /\ ValidInv /\ \A b \in Builders : BuilderInv(b)

-----------------------------------------------------------------------------
\* What the assumption says of the builds at hand.
LEMMA BuildFacts ==
    ASSUME build \in Builds, NEW b \in Builders
    PROVE  /\ build[b].ca \in BOOLEAN /\ build[b].sandbox \in BOOLEAN /\ Known(b) \subseteq OutNames(b)
           /\ \A o \in OutNames(b) :
                 /\ build[b].contents[o] \subseteq Sources \cup {build[b].scratch[n] : n \in OutNames(b)}
                 /\ build[b].scratch[o] \notin Sources /\ build[b].scratch[o][1] # "ca"
                 /\ \A n \in OutNames(b) : build[b].scratch[n] = build[b].scratch[o] => n = o
                 /\ \A n \in Known(b) : build[b].known[n] = build[b].scratch[o] => n = o
           /\ \A o, n \in OutNames(b) \ Known(b) :
                 ~build[b].ca /\ build[b].final[n] = build[b].final[o] => n = o
           /\ \A p \in OwnPaths(build[b]) : p[1] # "ca" /\ p \notin ValidBefore(build)
           /\ \A c \in Builders \ {b} : OwnPaths(build[b]) \cap OwnPaths(build[c]) = {}
  BY OutputsAssumption DEF OutNames, Known

\* What was valid before.
LEMMA BeforeFacts ==
    ASSUME build \in Builds
    PROVE  /\ \A p \in ValidBefore(build) : p # Self /\ (p[1] = "ca" => p[3] = {})
           /\ Sources \subseteq ValidBefore(build)
           /\ \A b \in Builders : \A o \in Known(b) : build[b].known[o] \in ValidBefore(build)
<1>1. \A p \in ValidBefore(build) : p # Self /\ (p[1] = "ca" => p[3] = {})
  BY OutputsAssumption
<1>. QED  BY <1>1 DEF ValidBefore, Known

\* What one builder may change is nothing to another one.
LEMMA MineDisjoint ==
    ASSUME build \in Builds, NEW b \in Builders, NEW c \in Builders \ {b}
    PROVE  Mine(b) \cap Mine(c) = {}
  BY BuildFacts DEF Mine

\* An info stays right when more paths are valid and more outputs are done.
LEMMA DescribesMore ==
    ASSUME NEW b, NEW o, NEW i, build' = build, Describes(b, o, i),
           DOMAIN valid \subseteq DOMAIN valid', InfoPaths(b) \subseteq InfoPaths(b)'
    PROVE  /\ i.refs = i.contents
           /\ i.refs \subseteq DOMAIN valid' \cup InfoPaths(b)' \cup {i.path}
           /\ build'[b].ca => i.path[1] = "ca" /\ i.contents = Fill(i.path)
           /\ ~build'[b].ca => i.path = build'[b].final[o]
  BY DEF Describes

\* What a builder relies on: the paths of its infos are valid or its own.
LEMMA InfoPathsSafe ==
    ASSUME OutputsInv, NEW b \in Builders, NEW o \in DOMAIN Infos(b)
    PROVE  Infos(b)[o].path \in DOMAIN valid \/ Infos(b)[o].path \in OwnPaths(build[b])
<1>1. BuilderInv(b) /\ build \in Builds  BY DEF OutputsInv
<1>2. o \in OutNames(b) \ Known(b)  BY <1>1 DEF BuilderInv, ShapeInv
<1>3. /\ Describes(b, o, Infos(b)[o])
      /\ build[b].ca => Infos(b)[o].path \in DOMAIN valid
  BY <1>1 DEF BuilderInv, InfosInv
<1>4. ~build[b].ca => Infos(b)[o].path \in OwnPaths(build[b])
  BY <1>2, <1>3 DEF Describes, OwnPaths, OutNames, Known
<1>. QED  BY <1>3, <1>4

\* A step of one builder changes only what is its own and not valid, and leaves
\* what the others rely on alone.
LEMMA OtherBuilders ==
    ASSUME OutputsInv, NEW b \in Builders, NEW c \in Builders \ {b}, build' = build, bst'[c] = bst[c],
           DOMAIN valid \subseteq DOMAIN valid', DOMAIN valid' \ DOMAIN valid \subseteq Mine(b),
           \A p \in DOMAIN disk : p \in DOMAIN valid \/ p \notin Mine(b) =>
               p \in DOMAIN disk' /\ disk'[p] = disk[p],
           \A p \in DOMAIN dynamicLock : dynamicLock[p] # b =>
               p \in DOMAIN dynamicLock' /\ dynamicLock'[p] = dynamicLock[p]
    PROVE  BuilderInv(c)'
<1>1. BuilderInv(c) /\ build \in Builds  BY DEF OutputsInv
<1>2. Infos(c)' = Infos(c) /\ InfoPaths(c)' = InfoPaths(c)
  BY DEF Infos, InfoPaths
<1>3. ShapeInv(c)'
  BY <1>1, <1>2 DEF BuilderInv, ShapeInv, OutNames, Known
<1>4. RewritesInv(c)'
  BY <1>1, <1>2 DEF BuilderInv, RewritesInv, OutNames, Known, Target
<1>5. Mine(b) \cap Mine(c) = {} /\ OwnPaths(build[c]) \subseteq Mine(c)
  BY <1>1, MineDisjoint DEF Mine
<1>6. InfosInv(c)'
  <2>. SUFFICES ASSUME NEW o \in DOMAIN Infos(c)
                PROVE  LET i == Infos(c)[o] IN
                       (Describes(c, o, i) /\ OnDisk(i) /\ (build[c].ca => i.path \in DOMAIN valid))'
    BY <1>2 DEF InfosInv
  <2>. DEFINE i == Infos(c)[o]
  <2>1. Describes(c, o, i) /\ OnDisk(i) /\ (build[c].ca => i.path \in DOMAIN valid)
    BY <1>1 DEF BuilderInv, InfosInv
  <2>2. i' = i  BY <1>2
  <2>3. i.path \in DOMAIN valid \/ i.path \notin Mine(b)  BY <1>5, InfoPathsSafe
  <2>. HIDE DEF i
  <2>4. Describes(c, o, i)'  BY <1>2, <2>1, <2>2, DescribesMore DEF Describes
  <2>5. OnDisk(i)'  BY <2>1, <2>2, <2>3 DEF OnDisk
  <2>. QED  BY <2>1, <2>2, <2>4, <2>5 DEF i
<1>7. CurInv(c)'
  <2>. SUFFICES ASSUME bst[c].pc \in {"lock", "move", "delete", "rename", "finish"} PROVE CurInv(c)'
    BY DEF CurInv
  <2>. DEFINE i == Cur(c)
  <2>1. /\ bst[c].cur.name \in bst[c].todo \ Known(c) /\ Describes(c, bst[c].cur.name, i)
        /\ bst[c].pc = "lock" => build[c].ca
        /\ bst[c].pc # "lock" => i.path \in Mine(c)
        /\ bst[c].pc \in {"delete", "rename"} => i.path \notin DOMAIN valid
        /\ bst[c].pc = "finish" => OnDisk(i)
    BY <1>1 DEF BuilderInv, CurInv
  <2>2. i' = i /\ Known(c)' = Known(c)  BY DEF Cur, Known
  <2>3. Mine(c) \subseteq Mine(c)'
    BY DEF Mine
  <2>. HIDE DEF i
  <2>4. Describes(c, bst[c].cur.name, i)'  BY <1>2, <2>1, <2>2, DescribesMore DEF Describes
  <2>5. bst[c].pc # "lock" => i.path \notin Mine(b)  BY <1>5, <2>1
  <2>6. bst[c].pc = "finish" => OnDisk(i)'  BY <2>1, <2>2, <2>5 DEF OnDisk
  <2>7. bst[c].pc \in {"delete", "rename"} => i.path \notin DOMAIN valid'  BY <2>1, <2>5
  <2>8. bst[c].pc # "lock" => i.path \in Mine(c)'  BY <2>1, <2>3
  <2>9. Cur(c)' = i  BY <2>2 DEF i
  <2>. QED  BY <2>1, <2>2, <2>4, <2>6, <2>7, <2>8, <2>9 DEF CurInv
<1>. QED  BY <1>3, <1>4, <1>6, <1>7 DEF BuilderInv

\* What makes a record that of a builder.
LEMMA RecordDomain ==
    ASSUME NEW r
    PROVE  IsRecord(r) <=> DOMAIN r = {"pc", "todo", "rewrites", "infos", "cur"} /\ r = [f \in DOMAIN r |-> r[f]]
<1>1. ASSUME IsRecord(r)
      PROVE  DOMAIN r = {"pc", "todo", "rewrites", "infos", "cur"} /\ r = [f \in DOMAIN r |-> r[f]]
  <2>. DEFINE a == r.pc  c == r.todo  d == r.rewrites  e == r.infos  g == r.cur
  <2>1. r = [pc |-> a, todo |-> c, rewrites |-> d, infos |-> e, cur |-> g]  BY <1>1 DEF IsRecord
  <2>. HIDE DEF a, c, d, e, g
  <2>. QED  BY <2>1
<1>2. ASSUME DOMAIN r = {"pc", "todo", "rewrites", "infos", "cur"}, r = [f \in DOMAIN r |-> r[f]]
      PROVE  IsRecord(r)
  BY <1>2 DEF IsRecord
<1>. QED  BY <1>1, <1>2

\* The record of a builder that is somewhere else.
LEMMA RecordMoves ==
    ASSUME NEW r, NEW p, IsRecord(r)
    PROVE  [r EXCEPT !.pc = p] =
              [pc |-> p, todo |-> r.todo, rewrites |-> r.rewrites, infos |-> r.infos, cur |-> r.cur]
<1>1. DOMAIN r = {"pc", "todo", "rewrites", "infos", "cur"} /\ r = [f \in DOMAIN r |-> r[f]]
  BY RecordDomain
<1>. DEFINE q == [r EXCEPT !.pc = p]
<1>2. DOMAIN q = {"pc", "todo", "rewrites", "infos", "cur"} /\ q = [f \in DOMAIN q |-> q[f]]
  BY <1>1
<1>3. q.pc = p  BY <1>1
<1>4. q.todo = r.todo  BY <1>1
<1>5. q.rewrites = r.rewrites  BY <1>1
<1>6. q.infos = r.infos  BY <1>1
<1>7. q.cur = r.cur  BY <1>1
<1>. HIDE DEF q
<1>8. IsRecord(q)  BY <1>2, RecordDomain
<1>. QED  BY <1>3, <1>4, <1>5, <1>6, <1>7, <1>8 DEF q, IsRecord

\* The record of a builder that takes the next output.
LEMMA RecordTakes ==
    ASSUME NEW r, NEW p, NEW x, IsRecord(r)
    PROVE  [r EXCEPT !.pc = p, !.cur = x] =
              [pc |-> p, todo |-> r.todo, rewrites |-> r.rewrites, infos |-> r.infos, cur |-> x]
<1>1. DOMAIN r = {"pc", "todo", "rewrites", "infos", "cur"} /\ r = [f \in DOMAIN r |-> r[f]]
  BY RecordDomain
<1>. DEFINE q == [r EXCEPT !.pc = p, !.cur = x]
<1>2. DOMAIN q = {"pc", "todo", "rewrites", "infos", "cur"} /\ q = [f \in DOMAIN q |-> q[f]]
  BY <1>1
<1>3. q.pc = p  BY <1>1
<1>4. q.todo = r.todo  BY <1>1
<1>5. q.rewrites = r.rewrites  BY <1>1
<1>6. q.infos = r.infos  BY <1>1
<1>7. q.cur = x  BY <1>1
<1>. HIDE DEF q
<1>8. IsRecord(q)  BY <1>2, RecordDomain
<1>. QED  BY <1>3, <1>4, <1>5, <1>6, <1>7, <1>8 DEF q, IsRecord

\* The record of a builder that skips an output.
LEMMA RecordSkips ==
    ASSUME NEW r, NEW t, NEW w, IsRecord(r)
    PROVE  [r EXCEPT !.todo = t, !.rewrites = w] =
              [pc |-> r.pc, todo |-> t, rewrites |-> w, infos |-> r.infos, cur |-> r.cur]
<1>1. DOMAIN r = {"pc", "todo", "rewrites", "infos", "cur"} /\ r = [f \in DOMAIN r |-> r[f]]
  BY RecordDomain
<1>. DEFINE q == [r EXCEPT !.todo = t, !.rewrites = w]
<1>2. DOMAIN q = {"pc", "todo", "rewrites", "infos", "cur"} /\ q = [f \in DOMAIN q |-> q[f]]
  BY <1>1
<1>3. q.pc = r.pc  BY <1>1
<1>4. q.todo = t  BY <1>1
<1>5. q.rewrites = w  BY <1>1
<1>6. q.infos = r.infos  BY <1>1
<1>7. q.cur = r.cur  BY <1>1
<1>. HIDE DEF q
<1>8. IsRecord(q)  BY <1>2, RecordDomain
<1>. QED  BY <1>3, <1>4, <1>5, <1>6, <1>7, <1>8 DEF q, IsRecord

\* A step that registers nothing.
LEMMA NothingRegistered ==
    ASSUME OutputsInv, NEW b \in Builders, NEW s, bst' = [bst EXCEPT ![b] = s], build' = build,
           valid' = valid, bst[b].pc # "done",
           \A p \in DOMAIN disk : p \in DOMAIN valid \/ p \notin Mine(b) =>
               p \in DOMAIN disk' /\ disk'[p] = disk[p],
           \A p \in DOMAIN dynamicLock : dynamicLock[p] # b =>
               p \in DOMAIN dynamicLock' /\ dynamicLock'[p] = dynamicLock[p],
           BuilderInv(b)'
    PROVE  OutputsInv'
<1>1. build \in Builds /\ bst = [c \in Builders |-> bst[c]] /\ ValidInv
  BY DEF OutputsInv
<1>2. bst' = [c \in Builders |-> bst'[c]] /\ \A c \in Builders \ {b} : bst'[c] = bst[c]
  BY <1>1
<1>3. \A c \in Builders \ {b} : BuilderInv(c)'
  BY <1>2, OtherBuilders
<1>4. ValidInv'
  <2>1. \A p \in DOMAIN valid : p \in DOMAIN disk' /\ disk'[p] = valid[p] /\ valid[p] \subseteq DOMAIN valid
    BY <1>1 DEF ValidInv
  <2>2. \A c \in Builders : bst'[c].pc # "done" => OwnPaths(build[c]) \cap DOMAIN valid = {}
    BY <1>1, <1>2 DEF ValidInv
  <2>. QED  BY <1>1, <2>1, <2>2 DEF ValidInv
<1>. QED  BY <1>1, <1>2, <1>3, <1>4 DEF OutputsInv

\* A step that neither ends an output nor registers anything.
LEMMA MovesOn ==
    ASSUME OutputsInv, NEW b \in Builders, NEW p \in BuilderPoints \ {"threw"}, NEW cur, NEW P,
           bst' = [bst EXCEPT ![b] = [pc |-> p, todo |-> bst[b].todo, rewrites |-> bst[b].rewrites,
                                      infos |-> bst[b].infos, cur |-> cur]],
           build' = build, valid' = valid, bst[b].pc # "done",
           \/ disk' = disk
           \/ /\ P \in Mine(b) /\ P \notin DOMAIN valid /\ P \notin InfoPaths(b)
              /\ \A q \in DOMAIN disk \ {P} : q \in DOMAIN disk' /\ disk'[q] = disk[q],
           \A q \in DOMAIN dynamicLock : dynamicLock[q] # b =>
               q \in DOMAIN dynamicLock' /\ dynamicLock'[q] = dynamicLock[q],
           CurInv(b)'
    PROVE  OutputsInv'
<1>. DEFINE s == [pc |-> p, todo |-> bst[b].todo, rewrites |-> bst[b].rewrites,
                  infos |-> bst[b].infos, cur |-> cur]
<1>1. build \in Builds /\ bst = [c \in Builders |-> bst[c]] /\ BuilderInv(b)
  BY DEF OutputsInv
<1>2. /\ s.pc = p /\ s.todo = bst[b].todo /\ s.rewrites = bst[b].rewrites /\ s.infos = bst[b].infos
      /\ IsRecord(s)
  BY DEF IsRecord
<1>3. bst' = [bst EXCEPT ![b] = s]  OBVIOUS
<1>. HIDE DEF s
<1>4. bst'[b] = s  BY <1>1, <1>3
<1>5. Infos(b)' = Infos(b) /\ InfoPaths(b)' = InfoPaths(b) /\ OutNames(b)' = OutNames(b) /\ Known(b)' = Known(b)
  BY <1>2, <1>4 DEF Infos, InfoPaths, OutNames, Known
<1>6. ShapeInv(b)'
  BY <1>1, <1>2, <1>4, <1>5 DEF BuilderInv, ShapeInv, Infos
<1>7. RewritesInv(b)'
  BY <1>1, <1>2, <1>4, <1>5 DEF BuilderInv, RewritesInv, Target
<1>8. InfosInv(b)'
  <2>. SUFFICES ASSUME NEW o \in DOMAIN Infos(b)
                PROVE  LET i == Infos(b)[o] IN
                       (Describes(b, o, i) /\ OnDisk(i) /\ (build[b].ca => i.path \in DOMAIN valid))'
    BY <1>5 DEF InfosInv
  <2>. DEFINE i == Infos(b)[o]
  <2>1. Describes(b, o, i) /\ OnDisk(i) /\ (build[b].ca => i.path \in DOMAIN valid)
    BY <1>1 DEF BuilderInv, InfosInv
  <2>2. i' = i  BY <1>5
  <2>3. i.path \in InfoPaths(b)  BY DEF InfoPaths
  <2>. HIDE DEF i
  <2>4. Describes(b, o, i)'  BY <1>5, <2>1, <2>2, DescribesMore DEF Describes
  <2>5. OnDisk(i)'  BY <2>1, <2>2, <2>3 DEF OnDisk
  <2>. QED  BY <2>1, <2>2, <2>4, <2>5 DEF i
<1>9. BuilderInv(b)'  BY <1>6, <1>7, <1>8 DEF BuilderInv
<1>10. \A q \in DOMAIN disk : q \in DOMAIN valid \/ q \notin Mine(b) =>
          q \in DOMAIN disk' /\ disk'[q] = disk[q]
  OBVIOUS
<1>. QED  BY <1>3, <1>9, <1>10, NothingRegistered

\* Steps that change nothing but where the builder is, and perhaps end its locks.
LEMMA GoesElsewhere ==
    ASSUME OutputsInv, NEW b \in Builders, NEW p \in BuilderPoints,
           p \notin {"threw", "lock", "move", "delete", "rename", "finish"},
           Set(b, [bst[b] EXCEPT !.pc = p]), build' = build, valid' = valid, disk' = disk,
           bst[b].pc # "done", dynamicLock' = dynamicLock \/ dynamicLock' = Unlocked(b)
    PROVE  OutputsInv'
<1>1. bst = [c \in Builders |-> bst[c]] /\ ShapeInv(b)  BY DEF OutputsInv, BuilderInv
<1>2. bst' = [bst EXCEPT ![b] = [pc |-> p, todo |-> bst[b].todo, rewrites |-> bst[b].rewrites,
                                 infos |-> bst[b].infos, cur |-> bst[b].cur]]
  BY <1>1, RecordMoves DEF Set, ShapeInv
<1>3. bst'[b].pc = p  BY <1>1, <1>2
<1>4. CurInv(b)'  BY <1>3 DEF CurInv
<1>5. \A q \in DOMAIN dynamicLock : dynamicLock[q] # b =>
         q \in DOMAIN dynamicLock' /\ dynamicLock'[q] = dynamicLock[q]
  BY DEF Unlocked
<1>. QED  BY <1>2, <1>4, <1>5, MovesOn

\* Rejections, the end of the scan, of the lock and of the process.
LEMMA EndsInv ==
    ASSUME OutputsInv, NEW b \in Builders,
           RejectOutput(b) \/ ScanOutputs(b) \/ UnlockOutput(b) \/ RejectOutputs(b) \/ Kill(b)
    PROVE  OutputsInv'
<1>1. CASE RejectOutput(b) \/ RejectOutputs(b)
  BY <1>1, GoesElsewhere DEF RejectOutput, RejectOutputs, BuilderPoints
<1>2. CASE ScanOutputs(b)
  BY <1>2, GoesElsewhere DEF ScanOutputs, BuilderPoints
<1>3. CASE UnlockOutput(b)
  BY <1>3, GoesElsewhere DEF UnlockOutput, BuilderPoints
<1>4. CASE Kill(b)
  BY <1>4, GoesElsewhere DEF Kill, BuilderPoints, Ended
<1>. QED  BY <1>1, <1>2, <1>3, <1>4

\* A path that is not valid is none of the ones the infos of a builder have, if it
\* is that of an output still to do.
LEMMA NotAnInfoPath ==
    ASSUME OutputsInv, NEW b \in Builders, NEW o \in bst[b].todo \ Known(b), NEW i,
           Describes(b, o, i), i.path \notin DOMAIN valid
    PROVE  i.path \notin InfoPaths(b)
<1>1. build \in Builds /\ ShapeInv(b) /\ InfosInv(b)  BY DEF OutputsInv, BuilderInv
<1>. SUFFICES ASSUME NEW n \in DOMAIN Infos(b), Infos(b)[n].path = i.path PROVE FALSE
  BY DEF InfoPaths
<1>2. /\ Describes(b, n, Infos(b)[n]) /\ (build[b].ca => Infos(b)[n].path \in DOMAIN valid)
  BY <1>1 DEF InfosInv
<1>3. n \in OutNames(b) \ Known(b) /\ n # o /\ o \in OutNames(b) \ Known(b)  BY <1>1 DEF ShapeInv
<1>4. ~build[b].ca  BY <1>2
<1>5. build[b].final[n] = build[b].final[o]  BY <1>2, <1>4 DEF Describes
<1>. QED  BY <1>1, <1>3, <1>4, <1>5, BuildFacts

\* The output at hand of an input-addressed derivation is at a path of its own,
\* which is not valid yet.
LEMMA OwnOutput ==
    ASSUME OutputsInv, NEW b \in Builders, NEW o \in bst[b].todo \ Known(b), ~build[b].ca,
           bst[b].pc # "done"
    PROVE  build[b].final[o] \in OwnPaths(build[b]) /\ build[b].final[o] \notin DOMAIN valid
<1>1. ShapeInv(b) /\ ValidInv  BY DEF OutputsInv, BuilderInv
<1>2. build[b].final[o] \in OwnPaths(build[b])
  BY <1>1 DEF ShapeInv, OwnPaths, OutNames, Known
<1>. QED  BY <1>1, <1>2 DEF ValidInv

\* Steps that leave the output at hand as it is.
LEMMA SameOutput ==
    ASSUME OutputsInv, NEW b \in Builders, NEW p \in {"move", "delete", "rename", "finish"},
           Set(b, [bst[b] EXCEPT !.pc = p]), build' = build, valid' = valid,
           bst[b].pc \in {"lock", "move", "delete", "rename"},
           \/ disk' = disk
           \/ /\ Cur(b).path \in Mine(b) /\ Cur(b).path \notin DOMAIN valid
              /\ \A q \in DOMAIN disk \ {Cur(b).path} : q \in DOMAIN disk' /\ disk'[q] = disk[q],
           \A q \in DOMAIN dynamicLock : dynamicLock[q] # b =>
               q \in DOMAIN dynamicLock' /\ dynamicLock'[q] = dynamicLock[q],
           Cur(b).path \in Mine(b)',
           p \in {"delete", "rename"} => Cur(b).path \notin DOMAIN valid,
           p = "finish" => Cur(b).path \in DOMAIN disk' /\ disk'[Cur(b).path] = Cur(b).contents
    PROVE  OutputsInv'
<1>1. bst = [c \in Builders |-> bst[c]] /\ ShapeInv(b) /\ CurInv(b)  BY DEF OutputsInv, BuilderInv
<1>2. bst' = [bst EXCEPT ![b] = [pc |-> p, todo |-> bst[b].todo, rewrites |-> bst[b].rewrites,
                                 infos |-> bst[b].infos, cur |-> bst[b].cur]]
  BY <1>1, RecordMoves DEF Set, ShapeInv
<1>3. /\ bst'[b].pc = p /\ bst'[b].todo = bst[b].todo /\ bst'[b].infos = bst[b].infos
      /\ bst'[b].cur = bst[b].cur
  BY <1>1, <1>2
<1>. DEFINE i == Cur(b)
<1>4. /\ bst[b].cur.name \in bst[b].todo \ Known(b) /\ Describes(b, bst[b].cur.name, i)
  BY <1>1 DEF CurInv
<1>5. i.path \notin DOMAIN valid => i.path \notin InfoPaths(b)
  BY <1>4, NotAnInfoPath
<1>6. Cur(b)' = i /\ Known(b)' = Known(b) /\ InfoPaths(b)' = InfoPaths(b)
  BY <1>3 DEF Cur, Known, InfoPaths, Infos
<1>7. i' = i  BY <1>6
<1>8. i.path \in Mine(b)' /\ (p = "finish" => i.path \in DOMAIN disk' /\ disk'[i.path] = i.contents)
      /\ (p \in {"delete", "rename"} => i.path \notin DOMAIN valid)
  OBVIOUS
<1>9. \/ disk' = disk
      \/ /\ i.path \in Mine(b) /\ i.path \notin DOMAIN valid /\ i.path \notin InfoPaths(b)
         /\ \A q \in DOMAIN disk \ {i.path} : q \in DOMAIN disk' /\ disk'[q] = disk[q]
  BY <1>5
<1>. HIDE DEF i
<1>10. Describes(b, bst[b].cur.name, i)'
  BY <1>3, <1>4, <1>6, <1>7, DescribesMore DEF Describes
<1>11. p = "finish" => OnDisk(i)'  BY <1>7, <1>8 DEF OnDisk
<1>12. CurInv(b)'
  BY <1>3, <1>4, <1>6, <1>7, <1>8, <1>10, <1>11 DEF CurInv
<1>13. p \in BuilderPoints \ {"threw"} /\ bst[b].pc # "done"  BY DEF BuilderPoints
<1>. QED  BY <1>2, <1>9, <1>12, <1>13, MovesOn

\* The lock on the path, the check, the removal of what is there, and the move.
LEMMA MovesInv ==
    ASSUME OutputsInv, NEW b \in Builders,
           LockOutput(b) \/ CheckValid(b) \/ DeleteDest(b) \/ MoveOutput(b)
    PROVE  OutputsInv'
<1>1. ValidInv /\ CurInv(b)  BY DEF OutputsInv, BuilderInv
<1>. DEFINE i == Cur(b)
<1>2. CASE LockOutput(b)
  <2>1. /\ bst[b].pc = "lock" /\ i.path \notin DOMAIN dynamicLock
        /\ dynamicLock' = Updated(dynamicLock, i.path, b)
        /\ Set(b, [bst[b] EXCEPT !.pc = "move"]) /\ UNCHANGED <<build, valid, disk>>
    BY <1>2 DEF LockOutput
  <2>2. i.path[1] = "ca"  BY <1>1, <2>1 DEF CurInv, Describes
  <2>. HIDE DEF i
  <2>3. i.path \in DOMAIN dynamicLock' /\ dynamicLock'[i.path] = b
        /\ \A q \in DOMAIN dynamicLock : q \in DOMAIN dynamicLock' /\ dynamicLock'[q] = dynamicLock[q]
    BY <2>1 DEF Updated
  <2>4. i.path \in Mine(b)'  BY <2>2, <2>3 DEF Mine
  <2>. QED  BY <2>1, <2>3, <2>4, SameOutput DEF i
<1>3. CASE CheckValid(b)
  <2>. DEFINE p == IF i.path \in DOMAIN valid THEN "finish" ELSE "delete"
  <2>1. bst[b].pc = "move" /\ Set(b, [bst[b] EXCEPT !.pc = p]) /\ UNCHANGED <<build, dynamicLock, valid, disk>>
    BY <1>3 DEF CheckValid
  <2>2. i.path \in Mine(b) /\ bst[b].cur.name \in bst[b].todo \ Known(b) /\ Describes(b, bst[b].cur.name, i)
    BY <1>1, <2>1 DEF CurInv
  <2>3. i.path \in Mine(b)'  BY <2>1, <2>2 DEF Mine
  <2>4. ASSUME i.path \in DOMAIN valid PROVE i.path \in DOMAIN disk /\ disk[i.path] = i.contents
    <3>1. build[b].ca  BY <2>1, <2>2, <2>4, OwnOutput DEF Describes
    <3>2. i.path[1] = "ca" /\ i.contents = Fill(i.path)  BY <2>2, <3>1 DEF Describes
    <3>. QED  BY <1>1, <2>4, <3>2 DEF ValidInv
  <2>5. p \in {"move", "delete", "rename", "finish"} /\ (p = "finish" => i.path \in DOMAIN valid)
        /\ (p \in {"delete", "rename"} => i.path \notin DOMAIN valid)
    OBVIOUS
  <2>. HIDE DEF p
  <2>. QED  BY <2>1, <2>3, <2>4, <2>5, SameOutput
<1>4. CASE DeleteDest(b)
  <2>1. /\ bst[b].pc = "delete" /\ disk' = [q \in DOMAIN disk \ {i.path} |-> disk[q]]
        /\ Set(b, [bst[b] EXCEPT !.pc = "rename"]) /\ UNCHANGED <<build, dynamicLock, valid>>
    BY <1>4 DEF DeleteDest
  <2>2. i.path \in Mine(b) /\ i.path \notin DOMAIN valid  BY <1>1, <2>1 DEF CurInv
  <2>3. i.path \in Mine(b)'  BY <2>1, <2>2 DEF Mine
  <2>4. \A q \in DOMAIN disk \ {i.path} : q \in DOMAIN disk' /\ disk'[q] = disk[q]  BY <2>1
  <2>. QED  BY <2>1, <2>2, <2>3, <2>4, SameOutput
<1>5. CASE MoveOutput(b)
  <2>1. /\ bst[b].pc = "rename" /\ disk' = Updated(disk, i.path, i.contents)
        /\ Set(b, [bst[b] EXCEPT !.pc = "finish"]) /\ UNCHANGED <<build, dynamicLock, valid>>
    BY <1>5 DEF MoveOutput
  <2>2. i.path \in Mine(b) /\ i.path \notin DOMAIN valid  BY <1>1, <2>1 DEF CurInv
  <2>3. i.path \in Mine(b)'  BY <2>1, <2>2 DEF Mine
  <2>4. /\ \A q \in DOMAIN disk \ {i.path} : q \in DOMAIN disk' /\ disk'[q] = disk[q]
        /\ i.path \in DOMAIN disk' /\ disk'[i.path] = i.contents
    BY <2>1 DEF Updated
  <2>. QED  BY <2>1, <2>2, <2>3, <2>4, SameOutput
<1>. QED  BY <1>2, <1>3, <1>4, <1>5

\* One rewriting of a set, one path at a time.
LEMMA RewriteImages ==
    ASSUME NEW C, NEW w
    PROVE  Rewrite(C, w) = {Image(w, p) : p \in C}
  BY DEF Rewrite, Image

\* What a content-addressed output has after the rewritings: first of the outputs
\* it refers to, then of itself.
LEMMA ContentRewriting ==
    ASSUME NEW C, NEW w, NEW s, NEW o, s \notin DOMAIN w,
           \A p \in C \ {s} : Image(w, p) # s /\ Image(w, p) # Self
    PROVE  LET R == Rewrite(C, w)
               F == ContentPath(o, Rewrite(R, Updated(Nothing, s, Self)))
               D == Rewrite(R, Updated(Nothing, s, F))
           IN  /\ F[1] = "ca" /\ D = Fill(F)
               /\ RewriteRefs(C, s, F, w) = D
<1>. DEFINE R == Rewrite(C, w)
            H == Rewrite(R, Updated(Nothing, s, Self))
            F == ContentPath(o, H)
            D == Rewrite(R, Updated(Nothing, s, F))
<1>1. R = {Image(w, p) : p \in C}  BY RewriteImages
<1>2. \A y : \A q : Image(Updated(Nothing, s, y), q) = IF q = s THEN y ELSE q
  BY DEF Image, Updated, Nothing
<1>. HIDE DEF R
<1>3. \A y : Rewrite(R, Updated(Nothing, s, y)) = {IF q = s THEN y ELSE q : q \in R}
  <2>. SUFFICES ASSUME NEW y
                PROVE  Rewrite(R, Updated(Nothing, s, y)) = {IF q = s THEN y ELSE q : q \in R}
    OBVIOUS
  <2>1. Rewrite(R, Updated(Nothing, s, y)) = {Image(Updated(Nothing, s, y), q) : q \in R}
    BY RewriteImages
  <2>. QED  BY <1>2, <2>1
<1>4. H = {IF q = s THEN Self ELSE q : q \in R}  BY <1>3
<1>5. D = {IF q = s THEN F ELSE q : q \in R}  BY <1>3
<1>. HIDE DEF H, D
<1>6. F[1] = "ca" /\ F[3] = H  BY DEF ContentPath
<1>. HIDE DEF F
<1>7. \A q \in R : q # s => q # Self
  BY <1>1 DEF Image
<1>8. Fill(F) = {IF q = Self THEN F ELSE q : q \in H}  BY <1>6 DEF Fill
<1>9. Fill(F) = D  BY <1>4, <1>5, <1>7, <1>8
<1>10. RewriteRefs(C, s, F, w) = {Image(w, p) : p \in C \ {s}} \cup (IF s \in C THEN {F} ELSE {})
  BY RewriteImages DEF RewriteRefs
<1>11. RewriteRefs(C, s, F, w) \subseteq D
  <2>1. \A p \in C \ {s} : Image(w, p) \in D  BY <1>1, <1>5
  <2>2. s \in C => F \in D  BY <1>1, <1>5 DEF Image
  <2>. QED  BY <1>10, <2>1, <2>2
<1>12. D \subseteq RewriteRefs(C, s, F, w)
  <2>. SUFFICES ASSUME NEW q \in R PROVE (IF q = s THEN F ELSE q) \in RewriteRefs(C, s, F, w)
    BY <1>5
  <2>1. PICK p \in C : q = Image(w, p)  BY <1>1
  <2>2. CASE p = s  BY <1>10, <2>1, <2>2 DEF Image
  <2>3. CASE p # s  BY <1>10, <2>1, <2>3
  <2>. QED  BY <2>2, <2>3
<1>. QED  BY <1>6, <1>9, <1>11, <1>12 DEF F, D, H, R

\* What one more rewrite does to each path.
LEMMA OneMoreRewrite ==
    ASSUME NEW w, NEW s, NEW F, s \notin DOMAIN w
    PROVE  /\ Image(WithRewrite(w, s, F), s) = F
           /\ \A p : p # s => Image(WithRewrite(w, s, F), p) = Image(w, p)
           /\ DOMAIN WithRewrite(w, s, F) \subseteq DOMAIN w \cup {s}
  BY DEF WithRewrite, Updated, Image

\* What an input-addressed output has after the rewriting.
LEMMA InputRewriting ==
    ASSUME NEW C, NEW w, NEW s, NEW F, s \notin DOMAIN w
    PROVE  RewriteRefs(C, s, F, WithRewrite(w, s, F)) = Rewrite(C, WithRewrite(w, s, F))
<1>. DEFINE v == WithRewrite(w, s, F)
<1>1. Image(v, s) = F /\ \A p \in C \ {s} : Image(v, p) = Image(w, p)
  BY OneMoreRewrite
<1>. HIDE DEF v
<1>2. /\ Rewrite(C, v) = {Image(v, p) : p \in C}
      /\ RewriteRefs(C, s, F, v) = {Image(v, p) : p \in C \ {s}} \cup (IF s \in C THEN {F} ELSE {})
  BY RewriteImages DEF RewriteRefs
<1>3. Rewrite(C, v) = RewriteRefs(C, s, F, v)
  BY <1>1, <1>2
<1>. QED  BY <1>1, <1>3 DEF v

\* What the references of the output that comes next become: what is valid, or an
\* output that has been done.
LEMMA NextReferences ==
    ASSUME OutputsInv, NEW b \in Builders, NEW o \in Sorted(b) \ Known(b)
    PROVE  /\ build[b].scratch[o] \notin DOMAIN bst[b].rewrites
           /\ \A p \in build[b].contents[o] \ {build[b].scratch[o]} :
                 LET q == Image(bst[b].rewrites, p)
                 IN  /\ q \in DOMAIN valid \cup InfoPaths(b)
                     /\ build[b].ca => q # build[b].scratch[o] /\ q # Self
<1>. DEFINE w == bst[b].rewrites  s == build[b].scratch[o]
<1>1. build \in Builds /\ ValidInv /\ ShapeInv(b) /\ RewritesInv(b) /\ InfosInv(b)
  BY DEF OutputsInv, BuilderInv
<1>2. o \in bst[b].todo /\ o \in OutNames(b) /\ o \notin Known(b)  BY <1>1 DEF ShapeInv, Sorted
<1>3. s \notin DOMAIN w
  <2>. SUFFICES ASSUME s \in DOMAIN w PROVE FALSE  OBVIOUS
  <2>1. PICK n \in OutNames(b) \ bst[b].todo : s = build[b].scratch[n]  BY <1>1 DEF RewritesInv
  <2>. QED  BY <1>1, <1>2, <2>1, BuildFacts
<1>4. ASSUME NEW p \in build[b].contents[o], p # s
      PROVE  LET q == Image(w, p)
             IN  q \in DOMAIN valid \cup InfoPaths(b) /\ (build[b].ca => q # s /\ q # Self)
  <2>1. p \in Sources \/ \E n \in OutNames(b) : p = build[b].scratch[n]
    BY <1>1, <1>2, BuildFacts
  <2>2. CASE p \in Sources
    <3>1. p \notin {build[b].scratch[n] : n \in OutNames(b)}  BY <1>1, <2>2, BuildFacts
    <3>2. Image(w, p) = p  BY <1>1, <3>1 DEF RewritesInv, Image
    <3>3. p \in DOMAIN valid /\ p # Self  BY <1>1, <2>2, BeforeFacts DEF ValidInv
    <3>. QED  BY <1>4, <3>2, <3>3
  <2>3. CASE \E n \in OutNames(b) : p = build[b].scratch[n]
    <3>1. PICK n \in OutNames(b) : p = build[b].scratch[n]  BY <2>3
    <3>2. n \in OtherOutputs(b, o)  BY <1>2, <1>4, <3>1 DEF OtherOutputs, OutNames, Known
    <3>3. n \in OutNames(b) \ bst[b].todo  BY <3>2 DEF Sorted
    <3>4. Image(w, p) = Target(b, n)  BY <1>1, <3>1, <3>3 DEF RewritesInv
    <3>5. CASE n \in Known(b)
      <4>1. Image(w, p) = build[b].known[n]  BY <3>4, <3>5 DEF Target
      <4>2. build[b].known[n] \in DOMAIN valid /\ build[b].known[n] # Self
        BY <1>1, <3>5, BeforeFacts DEF ValidInv
      <4>3. build[b].known[n] # s  BY <1>1, <1>2, <3>5, BuildFacts
      <4>. QED  BY <4>1, <4>2, <4>3
    <3>6. CASE n \notin Known(b)
      <4>1. Image(w, p) = Infos(b)[n].path /\ n \in DOMAIN Infos(b)
        BY <1>1, <3>3, <3>4, <3>6 DEF Target, ShapeInv
      <4>2. Image(w, p) \in InfoPaths(b)  BY <4>1 DEF InfoPaths
      <4>3. build[b].ca => Infos(b)[n].path[1] = "ca"  BY <1>1, <4>1 DEF InfosInv, Describes
      <4>4. s[1] # "ca" /\ Self[1] # "ca"  BY <1>1, <1>2, BuildFacts DEF Self
      <4>. QED  BY <4>1, <4>2, <4>3, <4>4
    <3>. QED  BY <3>5, <3>6
  <2>. QED  BY <2>1, <2>2, <2>3
<1>. QED  BY <1>3, <1>4

\* The info that the rewriting of an output makes is right.
LEMMA InfoIsRight ==
    ASSUME OutputsInv, NEW b \in Builders, NEW o \in Sorted(b) \ Known(b)
    PROVE  /\ build[b].ca => Describes(b, o, NewInfoFromCA(b, o))
           /\ ~build[b].ca => Describes(b, o, InputAddressed(b, o))
<1>. DEFINE w == bst[b].rewrites  s == build[b].scratch[o]  C == build[b].contents[o]
            G == DOMAIN valid \cup InfoPaths(b)
<1>1. s \notin DOMAIN w /\ \A p \in C \ {s} : Image(w, p) \in G
  BY NextReferences
<1>2. build[b].ca => \A p \in C \ {s} : Image(w, p) # s /\ Image(w, p) # Self
  BY NextReferences
<1>3. ASSUME build[b].ca PROVE Describes(b, o, NewInfoFromCA(b, o))
  <2>. DEFINE R == Rewrite(C, w)
              F == ContentPath(o, Rewrite(R, Updated(Nothing, s, Self)))
              D == Rewrite(R, Updated(Nothing, s, F))
              i == NewInfoFromCA(b, o)
  <2>1. i = [path |-> F, contents |-> D, refs |-> RewriteRefs(C, s, F, w)]  BY DEF NewInfoFromCA
  <2>2. F[1] = "ca" /\ D = Fill(F) /\ RewriteRefs(C, s, F, w) = D
    BY <1>1, <1>2, <1>3, ContentRewriting
  <2>3. RewriteRefs(C, s, F, w) \subseteq G \cup {F}
    BY <1>1, RewriteImages DEF RewriteRefs
  <2>. HIDE DEF F, D, i, G
  <2>4. i.path = F /\ i.contents = D /\ i.refs = D  BY <2>1, <2>2
  <2>. QED  BY <1>3, <2>2, <2>3, <2>4 DEF Describes, i, G
<1>4. ASSUME ~build[b].ca PROVE Describes(b, o, InputAddressed(b, o))
  <2>. DEFINE F == build[b].final[o]  v == WithRewrite(w, s, F)  i == InputAddressed(b, o)
              D == Rewrite(C, v)
  <2>1. i = [path |-> F, contents |-> D, refs |-> RewriteRefs(C, s, F, v)]  BY DEF InputAddressed
  <2>2. RewriteRefs(C, s, F, v) = D /\ \A p \in C \ {s} : Image(v, p) = Image(w, p)
    <3>1. s \notin DOMAIN w  BY <1>1
    <3>. HIDE DEF w, s, C, F, G
    <3>2. RewriteRefs(C, s, F, WithRewrite(w, s, F)) = Rewrite(C, WithRewrite(w, s, F))
      BY <3>1, InputRewriting
    <3>3. \A p : p # s => Image(WithRewrite(w, s, F), p) = Image(w, p)
      BY <3>1, OneMoreRewrite
    <3>. QED  BY <3>2, <3>3
  <2>3. RewriteRefs(C, s, F, v) \subseteq G \cup {F}
    BY <1>1, <2>2, RewriteImages DEF RewriteRefs
  <2>4. i.path = F /\ i.contents = D /\ i.refs = D  BY <2>1, <2>2
  <2>. HIDE DEF D, i, G
  <2>. QED  BY <1>4, <2>2, <2>3, <2>4 DEF Describes, i, G
<1>. QED  BY <1>3, <1>4

\* The output is rewritten, and perhaps stays where it is.
LEMMA RewriteOutputInv ==
    ASSUME OutputsInv, NEW b \in Builders, NEW o \in build[b].names, RewriteOutput(b, o)
    PROVE  OutputsInv'
<1>1. build \in Builds /\ bst = [c \in Builders |-> bst[c]] /\ ShapeInv(b)
  BY DEF OutputsInv, BuilderInv
<1>. DEFINE i == IF build[b].ca THEN NewInfoFromCA(b, o) ELSE InputAddressed(b, o)
            inPlace == ~build[b].sandbox /\ i.path = build[b].scratch[o]
            p == IF build[b].ca THEN "lock" ELSE IF inPlace THEN "finish" ELSE "move"
            x == [name |-> o, info |-> i]
<1>2. /\ bst[b].pc = "next" /\ o \in Sorted(b) /\ o \notin Known(b)
      /\ disk' = IF inPlace THEN Updated(disk, i.path, i.contents) ELSE disk
      /\ Set(b, [bst[b] EXCEPT !.pc = p, !.cur = x])
      /\ build' = build /\ dynamicLock' = dynamicLock /\ valid' = valid
  BY DEF RewriteOutput, Known
<1>3. Describes(b, o, i)  BY <1>2, InfoIsRight
<1>4. o \in bst[b].todo \ Known(b)  BY <1>2 DEF Sorted
<1>5. x.name = o /\ x.info = i  OBVIOUS
<1>6. build[b].ca => ~inPlace  BY <1>1, <1>3, BuildFacts DEF Describes, OutNames
<1>7. /\ p \in {"lock", "move", "finish"} /\ (p = "lock" <=> build[b].ca) /\ (p = "finish" => inPlace)
  BY <1>6
<1>8. p # "lock" => i.path \in Mine(b) /\ i.path \notin DOMAIN valid /\ i.path \notin InfoPaths(b)
  BY <1>2, <1>3, <1>4, <1>7, OwnOutput, NotAnInfoPath DEF Describes, Mine
<1>9. \/ disk' = disk
      \/ /\ i.path \in Mine(b) /\ i.path \notin DOMAIN valid /\ i.path \notin InfoPaths(b)
         /\ \A q \in DOMAIN disk \ {i.path} : q \in DOMAIN disk' /\ disk'[q] = disk[q]
  <2>1. CASE inPlace  BY <1>2, <1>6, <1>7, <1>8, <2>1 DEF Updated
  <2>2. CASE ~inPlace  BY <1>2, <2>2
  <2>. QED  BY <2>1, <2>2
<1>10. p = "finish" => i.path \in DOMAIN disk' /\ disk'[i.path] = i.contents
  BY <1>2, <1>7 DEF Updated
<1>. HIDE DEF i, p, x, inPlace
<1>11. bst' = [bst EXCEPT ![b] = [pc |-> p, todo |-> bst[b].todo, rewrites |-> bst[b].rewrites,
                                  infos |-> bst[b].infos, cur |-> x]]
  <2>. DEFINE r == bst[b]
  <2>1. IsRecord(r)  BY <1>1 DEF ShapeInv
  <2>. HIDE DEF r
  <2>2. [r EXCEPT !.pc = p, !.cur = x] =
           [pc |-> p, todo |-> r.todo, rewrites |-> r.rewrites, infos |-> r.infos, cur |-> x]
    BY <2>1, RecordTakes
  <2>. QED  BY <1>2, <2>2 DEF Set, r
<1>12. /\ bst'[b].pc = p /\ bst'[b].todo = bst[b].todo /\ bst'[b].infos = bst[b].infos
       /\ bst'[b].cur = x
  BY <1>1, <1>11
<1>13. Cur(b)' = i /\ InfoPaths(b)' = InfoPaths(b) /\ Known(b)' = Known(b) /\ Mine(b)' = Mine(b)
  BY <1>2, <1>5, <1>12 DEF Cur, InfoPaths, Infos, Known, Mine
<1>14. Describes(b, bst[b].cur.name, Cur(b))'
  BY <1>2, <1>3, <1>5, <1>12, <1>13 DEF Describes
<1>15. p = "finish" => OnDisk(Cur(b))'
  BY <1>10, <1>13 DEF OnDisk
<1>16. CurInv(b)'
  BY <1>2, <1>4, <1>5, <1>7, <1>8, <1>12, <1>13, <1>14, <1>15 DEF CurInv
<1>17. p \in BuilderPoints \ {"threw"} /\ bst[b].pc # "done"  BY <1>2, <1>7 DEF BuilderPoints
<1>18. \A q \in DOMAIN dynamicLock : q \in DOMAIN dynamicLock' /\ dynamicLock'[q] = dynamicLock[q]
  BY <1>2
<1>. QED  BY <1>2, <1>9, <1>11, <1>16, <1>17, <1>18, MovesOn

\* Rewrites v are those of builder b when output o is done as well, at path.
OneMoreDone(b, o, path, v) ==
    /\ DOMAIN v \subseteq {build[b].scratch[n] : n \in OutNames(b) \ (bst[b].todo \ {o})}
    /\ Image(v, build[b].scratch[o]) = path
    /\ \A n \in OutNames(b) \ bst[b].todo : Image(v, build[b].scratch[n]) = Target(b, n)

\* finish(): the rewrites when one more output is done.
LEMMA RewritesMore ==
    ASSUME OutputsInv, NEW b \in Builders, NEW o \in bst[b].todo, NEW path, NEW v,
           v = WithRewrite(bst[b].rewrites, build[b].scratch[o], path)
    PROVE  OneMoreDone(b, o, path, v)
<1>. DEFINE w == bst[b].rewrites  s == build[b].scratch[o]
<1>1. build \in Builds /\ ShapeInv(b) /\ RewritesInv(b)  BY DEF OutputsInv, BuilderInv
<1>2. o \in OutNames(b) /\ bst[b].todo \subseteq OutNames(b)  BY <1>1 DEF ShapeInv
<1>3. \A n \in OutNames(b) \ bst[b].todo : build[b].scratch[n] # s  BY <1>1, <1>2, BuildFacts
<1>4. s \notin DOMAIN w  BY <1>1, <1>3 DEF RewritesInv
<1>5. DOMAIN v \subseteq DOMAIN w \cup {s}  BY <1>4, OneMoreRewrite
<1>6. Image(v, s) = path  BY <1>4, OneMoreRewrite
<1>7. \A q : q # s => Image(v, q) = Image(w, q)  BY <1>4, OneMoreRewrite
<1>8. DOMAIN v \subseteq {build[b].scratch[n] : n \in OutNames(b) \ (bst[b].todo \ {o})}
  BY <1>1, <1>2, <1>5 DEF RewritesInv
<1>9. \A n \in OutNames(b) \ bst[b].todo : Image(v, build[b].scratch[n]) = Target(b, n)
  BY <1>1, <1>3, <1>7 DEF RewritesInv
<1>. QED  BY <1>6, <1>8, <1>9 DEF OneMoreDone

\* An output that was valid before is done without more.
LEMMA SkipInv ==
    ASSUME OutputsInv, NEW b \in Builders, NEW o \in build[b].names, SkipRegistered(b, o)
    PROVE  OutputsInv'
<1>1. bst = [c \in Builders |-> bst[c]] /\ ShapeInv(b) /\ RewritesInv(b) /\ InfosInv(b)
  BY DEF OutputsInv, BuilderInv
<1>. DEFINE t == bst[b].todo \ {o}
            v == WithRewrite(bst[b].rewrites, build[b].scratch[o], build[b].known[o])
            k == build[b].known[o]
            s == [pc |-> bst[b].pc, todo |-> t, rewrites |-> v, infos |-> bst[b].infos, cur |-> bst[b].cur]
<1>2. /\ bst[b].pc = "next" /\ o \in bst[b].todo /\ o \in Known(b)
      /\ bst' = [bst EXCEPT ![b] = [bst[b] EXCEPT !.todo = t, !.rewrites = v]]
      /\ build' = build /\ dynamicLock' = dynamicLock /\ valid' = valid /\ disk' = disk
  BY DEF SkipRegistered, Set, Sorted, Known
<1>3. /\ DOMAIN v \subseteq {build[b].scratch[n] : n \in OutNames(b) \ t}
      /\ Image(v, build[b].scratch[o]) = build[b].known[o]
      /\ \A n \in OutNames(b) \ bst[b].todo : Image(v, build[b].scratch[n]) = Target(b, n)
  <2>1. o \in bst[b].todo /\ v = WithRewrite(bst[b].rewrites, build[b].scratch[o], k)  BY <1>2
  <2>. HIDE DEF k, v
  <2>2. OneMoreDone(b, o, k, v)  BY <2>1, RewritesMore
  <2>. QED  BY <2>2 DEF OneMoreDone, k
<1>. HIDE DEF v
<1>4. s.pc = "next" /\ s.todo = t /\ s.rewrites = v /\ s.infos = bst[b].infos
      /\ IsRecord(s)
  BY <1>2 DEF IsRecord
<1>5. bst' = [bst EXCEPT ![b] = s]
  <2>. DEFINE r == bst[b]
  <2>1. IsRecord(r)  BY <1>1 DEF ShapeInv
  <2>. HIDE DEF r, t, s
  <2>2. [r EXCEPT !.todo = t, !.rewrites = v] =
           [pc |-> r.pc, todo |-> t, rewrites |-> v, infos |-> r.infos, cur |-> r.cur]
    BY <2>1, RecordSkips
  <2>. QED  BY <1>2, <2>2 DEF r, s
<1>. HIDE DEF s
<1>6. bst'[b] = s  BY <1>1, <1>5
<1>7. /\ Infos(b)' = Infos(b) /\ InfoPaths(b)' = InfoPaths(b) /\ OutNames(b)' = OutNames(b)
      /\ Known(b)' = Known(b) /\ \A n : Target(b, n)' = Target(b, n)
  BY <1>2, <1>4, <1>6 DEF Infos, InfoPaths, OutNames, Known, Target
<1>8. ShapeInv(b)'
  <2>1. bst'[b].pc \in BuilderPoints \ {"threw"}  BY <1>4, <1>6 DEF BuilderPoints
  <2>2. t \subseteq OutNames(b) /\ DOMAIN Infos(b) = (OutNames(b) \ t) \ Known(b)
    BY <1>1, <1>2 DEF ShapeInv
  <2>. QED  BY <1>4, <1>6, <1>7, <2>1, <2>2 DEF ShapeInv, Infos
<1>9. RewritesInv(b)'
  <2>1. \A n \in OutNames(b) \ t : Image(v, build[b].scratch[n]) = Target(b, n)
    BY <1>2, <1>3 DEF Target
  <2>. QED  BY <1>2, <1>3, <1>4, <1>6, <1>7, <2>1 DEF RewritesInv
<1>10. InfosInv(b)'
  BY <1>1, <1>2, <1>7 DEF InfosInv, Describes, OnDisk
<1>11. CurInv(b)'  BY <1>4, <1>6 DEF CurInv
<1>12. BuilderInv(b)'  BY <1>8, <1>9, <1>10, <1>11 DEF BuilderInv
<1>13. /\ \A q \in DOMAIN dynamicLock : q \in DOMAIN dynamicLock' /\ dynamicLock'[q] = dynamicLock[q]
       /\ \A q \in DOMAIN disk : q \in DOMAIN disk' /\ disk'[q] = disk[q]
  BY <1>2
<1>. QED  BY <1>2, <1>5, <1>12, <1>13, NothingRegistered

\* A step that registers paths of one builder, with what is there.
LEMMA SomeRegistered ==
    ASSUME OutputsInv, NEW b \in Builders, NEW s, NEW N, bst' = [bst EXCEPT ![b] = s], build' = build,
           disk' = disk, dynamicLock' = dynamicLock, DOMAIN valid' = DOMAIN valid \cup N,
           N \subseteq DOMAIN valid \cup Mine(b),
           \A p \in DOMAIN valid' : /\ p \in DOMAIN disk /\ valid'[p] = disk[p]
                                    /\ valid'[p] \subseteq DOMAIN valid'
                                    /\ p[1] = "ca" => valid'[p] = Fill(p),
           s.pc # "done" => bst[b].pc # "done" /\ OwnPaths(build[b]) \cap N = {},
           BuilderInv(b)'
    PROVE  OutputsInv'
<1>1. build \in Builds /\ bst = [c \in Builders |-> bst[c]] /\ ValidInv
  BY DEF OutputsInv
<1>2. bst' = [c \in Builders |-> bst'[c]] /\ bst'[b] = s /\ \A c \in Builders \ {b} : bst'[c] = bst[c]
  BY <1>1
<1>3. \A c \in Builders \ {b} : BuilderInv(c)'
  <2>1. /\ \A q \in DOMAIN dynamicLock : q \in DOMAIN dynamicLock' /\ dynamicLock'[q] = dynamicLock[q]
        /\ \A q \in DOMAIN disk : q \in DOMAIN disk' /\ disk'[q] = disk[q]
        /\ DOMAIN valid \subseteq DOMAIN valid' /\ DOMAIN valid' \ DOMAIN valid \subseteq Mine(b)
    OBVIOUS
  <2>. QED  BY <1>2, <2>1, OtherBuilders
<1>4. ValidInv'
  <2>1. \A c \in Builders : bst'[c].pc # "done" => OwnPaths(build[c]) \cap DOMAIN valid' = {}
    <3>. SUFFICES ASSUME NEW c \in Builders, bst'[c].pc # "done"
                  PROVE  OwnPaths(build[c]) \cap DOMAIN valid' = {}
      OBVIOUS
    <3>1. CASE c = b  BY <1>1, <1>2, <3>1 DEF ValidInv
    <3>2. CASE c # b
      <4>1. OwnPaths(build[c]) \cap DOMAIN valid = {}  BY <1>1, <1>2, <3>2 DEF ValidInv
      <4>2. OwnPaths(build[c]) \cap Mine(b) = {}  BY <1>1, <3>2, MineDisjoint DEF Mine
      <4>. QED  BY <4>1, <4>2
    <3>. QED  BY <3>1, <3>2
  <2>2. ValidBefore(build) \subseteq DOMAIN valid'  BY <1>1 DEF ValidInv
  <2>3. ValidBefore(build)' = ValidBefore(build) /\ \A c \in Builders : OwnPaths(build[c])' = OwnPaths(build[c])
    BY DEF ValidBefore, OwnPaths
  <2>. QED  BY <1>1, <2>1, <2>2, <2>3 DEF ValidInv
<1>. QED  BY <1>1, <1>2, <1>3, <1>4 DEF OutputsInv

\* What registering the infos of a builder does, when the files are there.
LEMMA RegisteredIsThere ==
    ASSUME OutputsInv, NEW b \in Builders, NEW I, CanRegister(I), valid' = Registered(I),
           \A i \in I : i.refs = i.contents /\ OnDisk(i) /\ (i.path[1] = "ca" => i.contents = Fill(i.path))
    PROVE  /\ DOMAIN valid' = DOMAIN valid \cup {i.path : i \in I}
           /\ \A p \in DOMAIN valid' : /\ p \in DOMAIN disk /\ valid'[p] = disk[p]
                                       /\ valid'[p] \subseteq DOMAIN valid'
                                       /\ p[1] = "ca" => valid'[p] = Fill(p)
<1>. DEFINE Q == {i.path : i \in I}
<1>1. ValidInv  BY DEF OutputsInv
<1>2. DOMAIN valid' = DOMAIN valid \cup Q  BY DEF Registered
<1>3. ASSUME NEW p \in Q PROVE \E i \in I : i.path = p /\ valid'[p] = i.refs
  <2>. DEFINE c == CHOOSE i \in I : i.path = p
  <2>1. c \in I /\ c.path = p  BY <1>3
  <2>2. valid'[p] = c.refs  BY <1>3 DEF Registered
  <2>. QED  BY <2>1, <2>2
<1>4. ASSUME NEW p \in DOMAIN valid \ Q PROVE valid'[p] = valid[p]
  BY <1>4 DEF Registered
<1>5. \A i \in I : i.refs \subseteq DOMAIN valid'  BY <1>2 DEF CanRegister
<1>. HIDE DEF Q
<1>6. ASSUME NEW p \in DOMAIN valid'
      PROVE  p \in DOMAIN disk /\ valid'[p] = disk[p] /\ valid'[p] \subseteq DOMAIN valid'
             /\ (p[1] = "ca" => valid'[p] = Fill(p))
  <2>1. CASE p \in Q
    <3>1. PICK i \in I : i.path = p /\ valid'[p] = i.refs  BY <1>3, <2>1
    <3>. QED  BY <1>5, <3>1 DEF OnDisk
  <2>2. CASE p \notin Q
    <3>1. p \in DOMAIN valid /\ valid'[p] = valid[p]  BY <1>2, <1>4, <1>6, <2>2
    <3>. QED  BY <1>1, <1>2, <3>1 DEF ValidInv
  <2>. QED  BY <2>1, <2>2
<1>. QED  BY <1>2, <1>6 DEF Q

\* An output is done, and registered if it is content-addressed.
LEMMA FinishInv ==
    ASSUME OutputsInv, NEW b \in Builders, FinishOutput(b)
    PROVE  OutputsInv'
<1>1. build \in Builds /\ bst = [c \in Builders |-> bst[c]] /\ ValidInv
      /\ ShapeInv(b) /\ InfosInv(b) /\ CurInv(b)
  BY DEF OutputsInv, BuilderInv
<1>. SUFFICES ASSUME NEW o, o = bst[b].cur.name, NEW j, j = Cur(b), NEW q, q = j.path,
                     NEW v, v = WithRewrite(bst[b].rewrites, build[b].scratch[o], q),
                     NEW e, e = Updated(bst[b].infos, o, j)
              PROVE  OutputsInv'
  OBVIOUS
<1>. DEFINE t == bst[b].todo \ {o}  I == Now(b)
            s == [bst[b] EXCEPT !.pc = "unlock", !.todo = t, !.rewrites = v, !.infos = e]
<1>2. bst[b].pc = "finish"  BY DEF FinishOutput
<1>3. /\ o \in bst[b].todo \ Known(b) /\ Describes(b, o, j) /\ j.path \in Mine(b) /\ OnDisk(j)
  BY <1>1, <1>2 DEF CurInv
<1>4. I = IF build[b].ca THEN {j} ELSE {}  BY DEF Now
<1>5. build[b].ca => InfoPaths(b) \subseteq DOMAIN valid  BY <1>1 DEF InfosInv, InfoPaths
<1>6. CanRegister(I)
  <2>1. build[b].ca => j.refs \subseteq DOMAIN valid \cup {j.path}  BY <1>3, <1>5 DEF Describes
  <2>. HIDE DEF I
  <2>. QED  BY <1>4, <2>1 DEF CanRegister
<1>7. /\ valid' = Registered(I) /\ build' = build /\ dynamicLock' = dynamicLock /\ disk' = disk
      /\ bst' = [bst EXCEPT ![b] = [bst[b] EXCEPT !.pc = "unlock", !.todo = t, !.rewrites = v, !.infos = e]]
  BY <1>6 DEF FinishOutput, Set
<1>8. \A i \in I : i.refs = i.contents /\ OnDisk(i) /\ (i.path[1] = "ca" => i.contents = Fill(i.path))
  BY <1>3, <1>4 DEF Describes
<1>9. /\ DOMAIN valid' = DOMAIN valid \cup {i.path : i \in I}
      /\ \A p \in DOMAIN valid' : /\ p \in DOMAIN disk /\ valid'[p] = disk[p]
                                  /\ valid'[p] \subseteq DOMAIN valid'
                                  /\ p[1] = "ca" => valid'[p] = Fill(p)
  <2>. HIDE DEF I
  <2>. QED  BY <1>6, <1>7, <1>8, RegisteredIsThere
<1>10. /\ DOMAIN v \subseteq {build[b].scratch[n] : n \in OutNames(b) \ t}
       /\ Image(v, build[b].scratch[o]) = j.path
       /\ \A n \in OutNames(b) \ bst[b].todo : Image(v, build[b].scratch[n]) = Target(b, n)
  <2>1. o \in bst[b].todo  BY <1>3
  <2>2. OneMoreDone(b, o, q, v)  BY <2>1, RewritesMore
  <2>. QED  BY <2>2 DEF OneMoreDone
<1>11. /\ DOMAIN e = DOMAIN Infos(b) \cup {o} /\ e[o] = j
       /\ \A n \in DOMAIN Infos(b) \ {o} : e[n] = Infos(b)[n]
  BY DEF Updated, Infos
<1>12. s.pc = "unlock" /\ s.todo = t /\ s.rewrites = v /\ s.infos = e /\ IsRecord(s)
  <2>1. DOMAIN bst[b] = {"pc", "todo", "rewrites", "infos", "cur"} /\ bst[b] = [f \in DOMAIN bst[b] |-> bst[b][f]]
    BY <1>1, RecordDomain DEF ShapeInv
  <2>2. s.pc = "unlock"  BY <2>1
  <2>3. s.todo = t  BY <2>1
  <2>4. s.rewrites = v  BY <2>1
  <2>5. s.infos = e  BY <2>1
  <2>6. DOMAIN s = {"pc", "todo", "rewrites", "infos", "cur"} /\ s = [f \in DOMAIN s |-> s[f]]  BY <2>1
  <2>. HIDE DEF s
  <2>. QED  BY <2>2, <2>3, <2>4, <2>5, <2>6, RecordDomain
<1>13. bst' = [bst EXCEPT ![b] = s]  BY <1>7
<1>. HIDE DEF s, I
<1>14. bst'[b] = s  BY <1>1, <1>13
<1>15. Infos(b)' = e /\ OutNames(b)' = OutNames(b) /\ Known(b)' = Known(b)
  BY <1>7, <1>12, <1>14 DEF Infos, OutNames, Known
<1>16. o \notin DOMAIN Infos(b)  BY <1>1, <1>3 DEF ShapeInv
<1>17. InfoPaths(b) \subseteq InfoPaths(b)' /\ DOMAIN valid \subseteq DOMAIN valid'
  BY <1>9, <1>11, <1>15, <1>16, SMTT(30) DEF InfoPaths
<1>18. ShapeInv(b)'
  <2>1. bst'[b].pc \in BuilderPoints \ {"threw"}  BY <1>12, <1>14 DEF BuilderPoints
  <2>2. t \subseteq OutNames(b) /\ DOMAIN e = (OutNames(b) \ t) \ Known(b)
    BY <1>1, <1>3, <1>11 DEF ShapeInv
  <2>. QED  BY <1>12, <1>14, <1>15, <2>1, <2>2 DEF ShapeInv
<1>19. RewritesInv(b)'
  <2>1. \A n \in OutNames(b) \ t : Image(v, build[b].scratch[n]) = Target(b, n)'
    <3>. SUFFICES ASSUME NEW n \in OutNames(b) \ t PROVE Image(v, build[b].scratch[n]) = Target(b, n)'
      OBVIOUS
    <3>1. CASE n = o  BY <1>3, <1>10, <1>11, <1>15, <3>1 DEF Target
    <3>2. CASE n # o
      <4>1. n \in OutNames(b) \ bst[b].todo  BY <3>2
      <4>2. n \notin Known(b) => n \in DOMAIN Infos(b)  BY <1>1, <4>1 DEF ShapeInv
      <4>3. Target(b, n)' = Target(b, n)  BY <1>7, <1>11, <1>15, <3>2, <4>2 DEF Target
      <4>. QED  BY <1>10, <4>1, <4>3
    <3>. QED  BY <3>1, <3>2
  <2>2. bst'[b].rewrites = v /\ bst'[b].todo = t /\ build' = build  BY <1>7, <1>12, <1>14
  <2>3. DOMAIN v \subseteq {build[b].scratch[n] : n \in OutNames(b) \ t}  BY <1>10
  <2>. HIDE DEF t
  <2>. QED  BY <1>15, <2>1, <2>2, <2>3 DEF RewritesInv
<1>20. InfosInv(b)'
  <2>. SUFFICES ASSUME NEW n \in DOMAIN e
                PROVE  LET i == Infos(b)[n] IN
                       (Describes(b, n, i) /\ OnDisk(i) /\ (build[b].ca => i.path \in DOMAIN valid))'
    BY <1>15 DEF InfosInv
  <2>. DEFINE i == Infos(b)[n]
  <2>1. i' = e[n]  BY <1>15
  <2>2. Describes(b, n, e[n]) /\ OnDisk(e[n]) /\ (build[b].ca => e[n].path \in DOMAIN valid')
    <3>1. CASE n = o  BY <1>3, <1>4, <1>9, <1>11, <3>1, SMTT(30)
    <3>2. CASE n # o  BY <1>1, <1>9, <1>11, <3>2 DEF InfosInv
    <3>. QED  BY <3>1, <3>2
  <2>. HIDE DEF i
  <2>3. Describes(b, n, i)'  BY <1>7, <1>17, <2>1, <2>2, DescribesMore DEF Describes
  <2>4. OnDisk(i)'  BY <1>7, <2>1, <2>2 DEF OnDisk
  <2>. QED  BY <1>7, <2>1, <2>2, <2>3, <2>4 DEF i
<1>21. CurInv(b)'  BY <1>12, <1>14 DEF CurInv
<1>22. BuilderInv(b)'  BY <1>18, <1>19, <1>20, <1>21 DEF BuilderInv
<1>. DEFINE N == {i.path : i \in I}
<1>23. N \subseteq Mine(b) /\ OwnPaths(build[b]) \cap N = {}
  <2>1. build[b].ca => j.path \notin OwnPaths(build[b])
    BY DEF OwnPaths
  <2>. QED  BY <1>3, <1>4, <2>1
<1>24. DOMAIN valid' = DOMAIN valid \cup N  BY <1>9
<1>. HIDE DEF N
<1>. QED  BY <1>2, <1>7, <1>9, <1>12, <1>13, <1>22, <1>23, <1>24, SomeRegistered

\* The outputs that are not content-addressed are registered, all of them at once.
LEMMA RegisterAllInv ==
    ASSUME OutputsInv, NEW b \in Builders, RegisterAll(b)
    PROVE  OutputsInv'
<1>1. build \in Builds /\ bst = [c \in Builders |-> bst[c]] /\ ValidInv
      /\ ShapeInv(b) /\ RewritesInv(b) /\ InfosInv(b)
  BY DEF OutputsInv, BuilderInv
<1>. DEFINE I == {Infos(b)[o] : o \in DOMAIN Infos(b)}
            s == [pc |-> "done", todo |-> bst[b].todo, rewrites |-> bst[b].rewrites,
                  infos |-> bst[b].infos, cur |-> bst[b].cur]
<1>2. /\ \A i \in I : \E o \in DOMAIN Infos(b) : Describes(b, o, i) /\ OnDisk(i) /\ i = Infos(b)[o]
      /\ {i.path : i \in I} = InfoPaths(b)
  BY <1>1 DEF InfosInv, InfoPaths
<1>3. I = {bst[b].infos[o] : o \in DOMAIN bst[b].infos}  BY DEF Infos
<1>. HIDE DEF I
<1>4. CanRegister(I)  BY <1>2 DEF CanRegister, Describes
<1>5. /\ valid' = Registered(I) /\ build' = build /\ dynamicLock' = dynamicLock /\ disk' = disk
      /\ Set(b, [bst[b] EXCEPT !.pc = "done"])
  BY <1>3, <1>4 DEF RegisterAll
<1>6. \A i \in I : i.refs = i.contents /\ OnDisk(i) /\ (i.path[1] = "ca" => i.contents = Fill(i.path))
  <2>. SUFFICES ASSUME NEW i \in I
                PROVE  i.refs = i.contents /\ OnDisk(i) /\ (i.path[1] = "ca" => i.contents = Fill(i.path))
    OBVIOUS
  <2>1. PICK o \in DOMAIN Infos(b) : Describes(b, o, i) /\ OnDisk(i)  BY <1>2
  <2>2. o \in OutNames(b) \ Known(b)  BY <1>1 DEF ShapeInv
  <2>3. ~build[b].ca => i.path \in OwnPaths(build[b])
    BY <2>1, <2>2 DEF Describes, OwnPaths, OutNames, Known
  <2>4. ~build[b].ca => i.path[1] # "ca"  BY <1>1, <2>3, BuildFacts
  <2>. QED  BY <2>1, <2>4 DEF Describes
<1>7. /\ DOMAIN valid' = DOMAIN valid \cup {i.path : i \in I}
      /\ \A p \in DOMAIN valid' : /\ p \in DOMAIN disk /\ valid'[p] = disk[p]
                                  /\ valid'[p] \subseteq DOMAIN valid'
                                  /\ p[1] = "ca" => valid'[p] = Fill(p)
  BY <1>4, <1>5, <1>6, RegisteredIsThere
<1>8. DOMAIN valid' = DOMAIN valid \cup InfoPaths(b)  BY <1>2, <1>7
<1>9. InfoPaths(b) \subseteq DOMAIN valid \cup Mine(b)  BY InfoPathsSafe DEF InfoPaths, Mine
<1>10. s.pc = "done" /\ s.todo = bst[b].todo /\ s.rewrites = bst[b].rewrites /\ s.infos = bst[b].infos
       /\ IsRecord(s)
  BY DEF IsRecord
<1>11. bst' = [bst EXCEPT ![b] = s]
  BY <1>1, <1>5, RecordMoves DEF Set, ShapeInv
<1>. HIDE DEF s
<1>12. bst'[b] = s  BY <1>1, <1>11
<1>13. /\ Infos(b)' = Infos(b) /\ InfoPaths(b)' = InfoPaths(b) /\ OutNames(b)' = OutNames(b)
       /\ Known(b)' = Known(b)
  BY <1>5, <1>10, <1>12 DEF Infos, InfoPaths, OutNames, Known
<1>14. ShapeInv(b)'
  BY <1>1, <1>10, <1>12, <1>13 DEF ShapeInv, BuilderPoints
<1>15. RewritesInv(b)'
  BY <1>1, <1>5, <1>10, <1>12, <1>13 DEF RewritesInv, Target
<1>16. InfosInv(b)'
  <2>. SUFFICES ASSUME NEW o \in DOMAIN Infos(b)
                PROVE  LET i == Infos(b)[o] IN
                       (Describes(b, o, i) /\ OnDisk(i) /\ (build[b].ca => i.path \in DOMAIN valid))'
    BY <1>13 DEF InfosInv
  <2>. DEFINE i == Infos(b)[o]
  <2>1. Describes(b, o, i) /\ OnDisk(i) /\ (build[b].ca => i.path \in DOMAIN valid)
    BY <1>1 DEF InfosInv
  <2>2. i' = i  BY <1>13
  <2>. HIDE DEF i
  <2>3. Describes(b, o, i)'  BY <1>5, <1>8, <1>13, <2>1, <2>2, DescribesMore DEF Describes
  <2>4. OnDisk(i)'  BY <1>5, <2>1, <2>2 DEF OnDisk
  <2>. QED  BY <1>5, <1>8, <2>1, <2>2, <2>3, <2>4 DEF i
<1>17. CurInv(b)'  BY <1>10, <1>12 DEF CurInv
<1>18. BuilderInv(b)'  BY <1>14, <1>15, <1>16, <1>17 DEF BuilderInv
<1>. QED  BY <1>5, <1>7, <1>8, <1>9, <1>10, <1>11, <1>18, SomeRegistered

\* Nothing has been done at first.
LEMMA OutputsInitInv ==
    ASSUME OutputsInit PROVE OutputsInv
<1>1. build \in Builds /\ valid = [p \in ValidBefore(build) |-> {}] /\ disk = valid
      /\ \A b \in Builders : bst[b] = [pc |-> "built", todo |-> OutNames(b), rewrites |-> Nothing,
                                       infos |-> Nothing, cur |-> NoPath]
  BY DEF OutputsInit, OutNames
<1>2. ValidInv
  <2>1. DOMAIN valid = ValidBefore(build) /\ \A p \in DOMAIN valid : valid[p] = {} /\ disk[p] = {}
    BY <1>1
  <2>2. \A p \in DOMAIN valid : p[1] = "ca" => valid[p] = Fill(p)  BY <1>1, <2>1, BeforeFacts DEF Fill
  <2>3. \A b \in Builders : OwnPaths(build[b]) \cap DOMAIN valid = {}  BY <1>1, <2>1, BuildFacts
  <2>. QED  BY <1>1, <2>1, <2>2, <2>3 DEF ValidInv
<1>3. ASSUME NEW b \in Builders PROVE BuilderInv(b)
  <2>1. /\ bst[b].pc = "built" /\ bst[b].todo = OutNames(b) /\ IsRecord(bst[b])
        /\ bst[b].rewrites = Nothing /\ bst[b].infos = Nothing
    <3>. DEFINE N == OutNames(b)  r == bst[b]
    <3>1. r = [pc |-> "built", todo |-> N, rewrites |-> Nothing, infos |-> Nothing, cur |-> NoPath]
      BY <1>1
    <3>. HIDE DEF N, r
    <3>2. r.pc = "built" /\ r.todo = N /\ r.rewrites = Nothing /\ r.infos = Nothing /\ r.cur = NoPath
      BY <3>1
    <3>3. IsRecord(r)  BY <3>1, <3>2 DEF IsRecord
    <3>. QED  BY <3>2, <3>3 DEF N, r
  <2>2. DOMAIN Nothing = {}  BY DEF Nothing
  <2>3. ShapeInv(b)  BY <2>1, <2>2 DEF ShapeInv, Infos, BuilderPoints
  <2>4. RewritesInv(b)  BY <2>1, <2>2 DEF RewritesInv
  <2>5. InfosInv(b)  BY <2>1, <2>2 DEF InfosInv, Infos
  <2>6. CurInv(b)  BY <2>1 DEF CurInv
  <2>. QED  BY <2>3, <2>4, <2>5, <2>6 DEF BuilderInv
<1>4. bst = [c \in Builders |-> bst[c]]  BY DEF OutputsInit
<1>5. build \in Builds  BY <1>1
<1>. QED  BY <1>2, <1>3, <1>4, <1>5 DEF OutputsInv

\* Every step keeps the invariant.
LEMMA OutputsStep ==
    ASSUME OutputsInv, [OutputsNext]_outputVars PROVE OutputsInv'
<1>1. CASE UNCHANGED outputVars
  BY <1>1, SMTT(30) DEF outputVars, OutputsInv, ValidInv, BuilderInv, ShapeInv, RewritesInv, InfosInv, CurInv,
     Describes, OnDisk, Infos, InfoPaths, OutNames, Known, Target, Mine, Cur
<1>2. CASE OutputsNext
  <2>1. PICK b \in Builders :
           \/ RejectOutput(b) \/ ScanOutputs(b)
           \/ \E o \in build[b].names : SkipRegistered(b, o) \/ RewriteOutput(b, o)
           \/ LockOutput(b) \/ CheckValid(b) \/ DeleteDest(b) \/ MoveOutput(b)
           \/ FinishOutput(b) \/ UnlockOutput(b) \/ RejectOutputs(b) \/ RegisterAll(b) \/ Kill(b)
    BY <1>2 DEF OutputsNext
  <2>2. CASE RejectOutput(b) \/ ScanOutputs(b) \/ UnlockOutput(b) \/ RejectOutputs(b) \/ Kill(b)
    BY <2>2, EndsInv
  <2>3. CASE \E o \in build[b].names : SkipRegistered(b, o) \/ RewriteOutput(b, o)
    BY <2>3, SkipInv, RewriteOutputInv
  <2>4. CASE LockOutput(b) \/ CheckValid(b) \/ DeleteDest(b) \/ MoveOutput(b)
    BY <2>4, MovesInv
  <2>5. CASE FinishOutput(b)  BY <2>5, FinishInv
  <2>6. CASE RegisterAll(b)  BY <2>6, RegisterAllInv
  <2>. QED  BY <2>1, <2>2, <2>3, <2>4, <2>5, <2>6
<1>. QED  BY <1>1, <1>2

\* What registerOutputs registers is what is there: every valid path is in the store
\* directory with exactly the references that the database has for it, they are valid,
\* and registration never fails; for any number of builders, of derivations of both
\* kinds, that arrive at the same content-addressed paths at once and may be killed.
THEOREM OutputsRegistered == OutputsSpec => []RegisteredExactly
<1>1. OutputsInit => OutputsInv  BY OutputsInitInv
<1>2. OutputsInv /\ [OutputsNext]_outputVars => OutputsInv'  BY OutputsStep
<1>3. OutputsInv => RegisteredExactly
  BY DEF OutputsInv, ValidInv, BuilderInv, ShapeInv, RegisteredExactly
<1>. QED  BY <1>1, <1>2, <1>3, PTL DEF OutputsSpec
=============================================================================
