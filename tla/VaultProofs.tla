---------------------------- MODULE VaultProofs ----------------------------
(* Theorems about VaultIndex, for every value of its constants. *)
EXTENDS VaultIndex, FiniteSetTheorems, TLAPS

LEMMA Bounds == MaxWrites \in Nat /\ MaxCommands \in Nat
  BY VaultAssumption

-----------------------------------------------------------------------------
(* Parsed pages. *)

LEMMA NoneParsed == ASSUME NEW m \in Nat PROVE Parsed(NoPages, m)
  BY DEF Parsed, NoPages

LEMMA ParsedLater ==
  ASSUME NEW m \in Nat, NEW n \in Nat, m <= n, NEW ps, Parsed(ps, m)
  PROVE  Parsed(ps, n)
<1>1. 0..m \subseteq 0..n
  OBVIOUS
<1>. QED BY <1>1 DEF Parsed

LEMMA ParsedEntry ==
  ASSUME NEW m \in Nat, NEW ps, Parsed(ps, m), NEW f \in DOMAIN ps
  PROVE  /\ f \in Files
         /\ ps[f] \in [text : Texts, mtime : 0..m]
         /\ ps[f].text \in Texts /\ ps[f].mtime \in 0..m
  BY DEF Parsed

\* What a command works on: the text of the index or of the scan, with the
\* mtime of the scan.
LEMMA MergedEntry ==
  ASSUME NEW m \in Nat, NEW old, NEW new, Parsed(old, m), Parsed(new, m),
         NEW f \in DOMAIN new
  PROVE  /\ DOMAIN Merged(old, new) = DOMAIN new
         /\ Merged(old, new)[f] \in [text : Texts, mtime : 0..m]
         /\ Merged(old, new)[f].mtime = new[f].mtime
         /\ \/ Merged(old, new)[f].text = new[f].text
            \/ /\ f \in DOMAIN old /\ old[f].mtime = new[f].mtime
               /\ Merged(old, new)[f].text = old[f].text
            \/ Root(Merged(old, new)[f].text) = Root(new[f].text)
<1>1. new[f] \in [text : Texts, mtime : 0..m]
  BY ParsedEntry
<1>2. ASSUME f \in DOMAIN old PROVE old[f] \in [text : Texts, mtime : 0..m]
  BY <1>2, ParsedEntry
<1>3. ASSUME f \in DOMAIN old
      PROVE  /\ [old[f] EXCEPT !.mtime = new[f].mtime] \in [text : Texts, mtime : 0..m]
             /\ [old[f] EXCEPT !.mtime = new[f].mtime].mtime = new[f].mtime
             /\ [old[f] EXCEPT !.mtime = new[f].mtime].text = old[f].text
  BY <1>1, <1>2, <1>3
<1>. QED BY <1>1, <1>2, <1>3 DEF Merged

LEMMA MergedParsed ==
  ASSUME NEW m \in Nat, NEW old, NEW new, Parsed(old, m), Parsed(new, m)
  PROVE  Parsed(Merged(old, new), m)
<1>1. DOMAIN Merged(old, new) = DOMAIN new /\ DOMAIN new \subseteq Files
  BY DEF Merged, Parsed
<1>2. \A f \in DOMAIN new : Merged(old, new)[f] \in [text : Texts, mtime : 0..m]
  BY MergedEntry
<1>3. Merged(old, new) = [f \in DOMAIN new |-> Merged(old, new)[f]]
  BY DEF Merged
<1>. QED BY <1>1, <1>2, <1>3 DEF Parsed

-----------------------------------------------------------------------------
(* Types. *)

\* The parts of VaultTypeOK that a step of a process may disturb.
FilesType ==
  /\ present \subseteq Files /\ text \in [Files -> Texts]
  /\ clock \in 0..MaxWrites /\ mtime \in [Files -> 0..clock]
  /\ raced \subseteq Files \X (0..clock)
CachesType == CacheFile(index) /\ CacheFile(theory)
ProcsType ==
  /\ pc \in [Procs -> Stages] /\ cmd \in [Procs -> Commands \cup {"none"}]
  /\ started \in 0..MaxCommands
  /\ todo \in [Procs -> SUBSET Files]
ReadType(r) == DOMAIN r \subseteq Files /\ r \in [DOMAIN r -> Texts]
HeldType(p) ==
  /\ ReadType(read[p])
  /\ Parsed(cached[p], clock) /\ Parsed(scan[p], clock)
  /\ Parsed(pages[p], clock) /\ Parsed(basis[p], clock)

\* The variables that are EXCEPTed are functions.
Shape ==
  /\ cached = [p \in Procs |-> cached[p]] /\ read = [p \in Procs |-> read[p]]
  /\ scan = [p \in Procs |-> scan[p]] /\ pages = [p \in Procs |-> pages[p]]
  /\ basis = [p \in Procs |-> basis[p]]

TypeInv == FilesType /\ CachesType /\ ProcsType /\ Shape /\ \A p \in Procs : HeldType(p)

LEMMA TypeInvImplies == TypeInv => VaultTypeOK
  BY DEF TypeInv, VaultTypeOK, FilesType, CachesType, ProcsType, HeldType, ReadType

LEMMA TypeInit == Init => TypeInv
<1>. SUFFICES ASSUME Init PROVE TypeInv
  OBVIOUS
<1>1. FilesType /\ ProcsType /\ Shape
  BY Bounds DEF Init, FilesType, ProcsType, Shape, Stages
<1>2. Parsed(NoPages, clock) /\ clock \in Nat
  BY NoneParsed DEF Init
<1>3. CachesType
  BY <1>2 DEF Init, CachesType, CacheFile, Missing
<1>4. \A p \in Procs : HeldType(p)
  BY <1>2 DEF Init, HeldType, ReadType, NoPages
<1>. QED BY <1>1, <1>3, <1>4 DEF TypeInv

\* Time has passed: what was held or cached keeps its type.
LEMMA TypeLater ==
  ASSUME TypeInv, UNCHANGED <<cacheVars, procVars>>, clock' \in Nat, clock <= clock'
  PROVE  /\ CachesType' /\ ProcsType' /\ Shape' /\ \A p \in Procs : HeldType(p)'
<1>1. clock \in Nat
  BY Bounds DEF TypeInv, FilesType
<1>2. \A ps : Parsed(ps, clock) => Parsed(ps, clock')
  BY <1>1, ParsedLater
<1>3. CachesType'
  BY <1>2 DEF TypeInv, CachesType, CacheFile, cacheVars, Parsed
<1>4. ProcsType' /\ Shape'
  BY DEF TypeInv, ProcsType, Shape, procVars
<1>5. ASSUME NEW p \in Procs PROVE HeldType(p)'
  <2>1. HeldType(p)
    BY DEF TypeInv
  <2>2. UNCHANGED <<cached[p], read[p], scan[p], pages[p], basis[p]>>
    BY DEF procVars
  <2>. QED BY <1>2, <2>1, <2>2 DEF HeldType, ReadType
<1>. QED BY <1>3, <1>4, <1>5

LEMMA WriteType ==
  ASSUME TypeInv, NEW f \in Files, Write(f)
  PROVE  TypeInv'
<1>1. /\ clock \in Nat /\ clock' = clock + 1 /\ clock' \in 0..MaxWrites
      /\ mtime \in [Files -> 0..clock] /\ text \in [Files -> Texts]
      /\ raced \subseteq Files \X (0..clock) /\ present \subseteq Files
  BY Bounds DEF TypeInv, FilesType, Write
<1>2. 0..clock \subseteq 0..clock' /\ clock' \in 0..clock' /\ clock <= clock' /\ clock' \in Nat
  BY <1>1
<1>3. PICK t \in Texts : text' = [text EXCEPT ![f] = t]
  BY DEF Write
<1>4. mtime' = [mtime EXCEPT ![f] = clock'] /\ present' = present \cup {f}
  BY DEF Write
<1>5. raced' \subseteq raced \cup {<<f, clock'>>}
  BY DEF Write
<1>6. FilesType'
  BY <1>1, <1>2, <1>3, <1>4, <1>5 DEF FilesType
<1>7. UNCHANGED <<cacheVars, procVars>>
  BY DEF Write
<1>. QED BY <1>2, <1>6, <1>7, TypeLater DEF TypeInv

LEMMA DeleteType ==
  ASSUME TypeInv, NEW f \in Files, Delete(f)
  PROVE  TypeInv'
<1>1. FilesType' /\ clock' = clock /\ clock \in Nat
  BY Bounds DEF TypeInv, FilesType, Delete
<1>2. UNCHANGED <<cacheVars, procVars>>
  BY DEF Delete
<1>. QED BY <1>1, <1>2, TypeLater DEF TypeInv

\* A step of a process, given what it does to the caches and what it holds.
LEMMA ProcType ==
  ASSUME TypeInv, UNCHANGED vaultVars, CachesType', ProcsType', Shape',
         NEW p \in Procs, HeldType(p)',
         \A q \in Procs \ {p} :
           UNCHANGED <<cached[q], read[q], scan[q], pages[q], basis[q]>>
  PROVE  TypeInv'
<1>1. FilesType' /\ clock' = clock
  BY Bounds DEF TypeInv, FilesType, vaultVars
<1>2. ASSUME NEW q \in Procs, q # p PROVE HeldType(q)'
  BY <1>1, <1>2 DEF TypeInv, HeldType, ReadType
<1>. QED BY <1>1, <1>2 DEF TypeInv

LEMMA EndType ==
  ASSUME TypeInv, NEW p \in Procs, End(p)
  PROVE  TypeInv'
<1>1. UNCHANGED vaultVars /\ CachesType' /\ clock \in Nat /\ clock' = clock
  BY DEF TypeInv, FilesType, CachesType, CacheFile, End, cacheVars, vaultVars
<1>2. ProcsType' /\ Shape'
  BY DEF TypeInv, ProcsType, Shape, End, Goto, Stages
<1>3. /\ cached'[p] = NoPages /\ read'[p] = NoPages /\ scan'[p] = NoPages
      /\ pages'[p] = NoPages /\ basis'[p] = NoPages
      /\ \A q \in Procs \ {p} : UNCHANGED <<cached[q], read[q], scan[q], pages[q], basis[q]>>
  BY DEF TypeInv, Shape, End
<1>4. HeldType(p)'
  BY <1>1, <1>3, NoneParsed DEF HeldType, ReadType, NoPages
<1>. QED BY <1>1, <1>2, <1>3, <1>4, ProcType

LEMMA StartType ==
  ASSUME TypeInv, NEW p \in Procs, NEW c \in Commands, Start(p, c)
  PROVE  TypeInv'
<1>1. UNCHANGED vaultVars /\ CachesType'
  BY DEF TypeInv, CachesType, CacheFile, Start, cacheVars, vaultVars
<1>2. UNCHANGED <<todo, cached, read, scan, pages, basis>> /\ started' \in 0..MaxCommands
  BY Bounds DEF TypeInv, ProcsType, Start
<1>3. pc' = [pc EXCEPT ![p] = "load"] /\ cmd' = [cmd EXCEPT ![p] = c]
  BY DEF Start, Goto
<1>4. ProcsType' /\ Shape'
  BY <1>2, <1>3 DEF TypeInv, ProcsType, Shape, Stages
<1>5. HeldType(p)' /\ UNCHANGED <<cached, read, scan, pages, basis>>
  BY <1>1 DEF TypeInv, HeldType, ReadType, Start, vaultVars
<1>. QED BY <1>1, <1>4, <1>5, ProcType

LEMMA LoadType ==
  ASSUME TypeInv, NEW p \in Procs, Load(p)
  PROVE  TypeInv'
<1>1. UNCHANGED vaultVars /\ CachesType' /\ clock \in Nat /\ clock' = clock
  BY DEF TypeInv, FilesType, CachesType, CacheFile, Load, cacheVars, vaultVars
<1>2. ProcsType' /\ Shape'
  BY DEF TypeInv, FilesType, ProcsType, Shape, Load, Goto, Stages
<1>3. Parsed(NoPages, clock) /\ Parsed(index.pages, clock)
  BY <1>1, NoneParsed DEF TypeInv, CachesType, CacheFile
<1>4. /\ cached'[p] \in {NoPages, index.pages} /\ UNCHANGED <<read, scan, pages, basis>>
      /\ \A q \in Procs \ {p} : cached'[q] = cached[q]
  BY DEF TypeInv, Shape, Load
<1>5. HeldType(p)'
  BY <1>1, <1>3, <1>4 DEF TypeInv, HeldType, ReadType
<1>. QED BY <1>1, <1>2, <1>4, <1>5, ProcType

LEMMA ReadType1 ==
  ASSUME TypeInv, NEW p \in Procs, NEW f \in Files, ReadFile(p, f)
  PROVE  TypeInv'
<1>1. UNCHANGED vaultVars /\ CachesType' /\ clock' = clock
  BY DEF TypeInv, CachesType, CacheFile, ReadFile, cacheVars, vaultVars
<1>2. ProcsType' /\ Shape'
  BY DEF TypeInv, ProcsType, Shape, ReadFile
<1>3. /\ read'[p] = [g \in {f} \cup DOMAIN read[p] |-> IF g = f THEN text[f] ELSE read[p][g]]
      /\ UNCHANGED <<cached, scan, pages, basis>>
      /\ \A q \in Procs \ {p} : read'[q] = read[q]
  BY DEF TypeInv, Shape, ReadFile
<1>4. ReadType(read[p]) /\ text[f] \in Texts
  BY DEF TypeInv, HeldType, FilesType
<1>5. ReadType(read'[p])
  BY <1>3, <1>4 DEF ReadType
<1>6. HeldType(p)'
  BY <1>1, <1>3, <1>5 DEF TypeInv, HeldType, ReadType
<1>. QED BY <1>1, <1>2, <1>3, <1>6, ProcType

LEMMA StatType ==
  ASSUME TypeInv, NEW p \in Procs, NEW f \in Files, StatFile(p, f)
  PROVE  TypeInv'
<1>1. UNCHANGED vaultVars /\ CachesType' /\ clock' = clock
  BY DEF TypeInv, CachesType, CacheFile, StatFile, cacheVars, vaultVars
<1>2. ProcsType' /\ Shape'
  BY DEF TypeInv, ProcsType, Shape, StatFile
<1>3. /\ scan'[p] = [g \in {f} \cup DOMAIN scan[p] |->
                       IF g = f THEN [text |-> read[p][f], mtime |-> mtime[f]] ELSE scan[p][g]]
      /\ read'[p] = [g \in DOMAIN read[p] \ {f} |-> read[p][g]]
      /\ UNCHANGED <<cached, pages, basis>>
      /\ \A q \in Procs \ {p} : read'[q] = read[q] /\ scan'[q] = scan[q]
  BY DEF TypeInv, Shape, StatFile
<1>4. ReadType(read[p]) /\ f \in DOMAIN read[p] /\ Parsed(scan[p], clock)
  BY DEF TypeInv, HeldType, StatFile
<1>5. [text |-> read[p][f], mtime |-> mtime[f]] \in [text : Texts, mtime : 0..clock]
  BY <1>4 DEF TypeInv, FilesType, ReadType
<1>6. ReadType(read'[p])
  BY <1>3, <1>4 DEF ReadType
<1>7. Parsed(scan'[p], clock)
  BY <1>3, <1>4, <1>5 DEF Parsed
<1>8. HeldType(p)'
  BY <1>1, <1>3, <1>6, <1>7 DEF TypeInv, HeldType, ReadType
<1>. QED BY <1>1, <1>2, <1>3, <1>8, ProcType

LEMMA MergeType ==
  ASSUME TypeInv, NEW p \in Procs, Merge(p)
  PROVE  TypeInv'
<1>1. UNCHANGED vaultVars /\ CachesType' /\ clock \in Nat /\ clock' = clock
  BY DEF TypeInv, FilesType, CachesType, CacheFile, Merge, cacheVars, vaultVars
<1>2. ProcsType' /\ Shape'
  BY DEF TypeInv, ProcsType, Shape, Merge, Goto, Stages
<1>3. /\ pages'[p] = Merged(cached[p], scan[p]) /\ cached'[p] = NoPages
      /\ UNCHANGED <<read, scan, basis>>
      /\ \A q \in Procs \ {p} : pages'[q] = pages[q] /\ cached'[q] = cached[q]
  BY DEF TypeInv, Shape, Merge
<1>4. Parsed(pages'[p], clock) /\ Parsed(cached'[p], clock)
  BY <1>1, <1>3, MergedParsed, NoneParsed DEF TypeInv, HeldType
<1>5. HeldType(p)'
  BY <1>1, <1>3, <1>4 DEF TypeInv, HeldType, ReadType
<1>. QED BY <1>1, <1>2, <1>3, <1>5, ProcType

LEMMA WrittenType ==
  ASSUME NEW ps, NEW file, NEW new \in Written(file, ps), NEW m \in Nat, Parsed(ps, m)
  PROVE  /\ new.is \in {"missing", "empty", "mixed", "whole"} /\ Parsed(new.pages, m)
         /\ new.pages \in {NoPages, ps}
  BY NoneParsed DEF Written, Whole, Mixed

\* A step that saves, or fails to, or goes on without.
LEMMA SaveType ==
  ASSUME TypeInv, NEW p \in Procs,
         \/ SaveTruncate(p) \/ SaveWrite(p) \/ SaveFails(p)
         \/ TheoryTruncate(p) \/ TheoryWrite(p) \/ TheoryFails(p)
  PROVE  TypeInv'
<1>0. clock \in Nat
  BY DEF TypeInv, FilesType
<1>1. UNCHANGED vaultVars /\ clock \in Nat /\ clock' = clock
  BY <1>0 DEF SaveTruncate, SaveWrite, SaveFails, TheoryTruncate, TheoryWrite, TheoryFails,
              vaultVars
<1>2. ProcsType' /\ Shape'
  BY DEF TypeInv, ProcsType, Shape, SaveTruncate, SaveWrite, SaveFails, TheoryTruncate,
         TheoryWrite, TheoryFails, Goto, Stages
<1>3. UNCHANGED <<cached, read, scan, pages, basis>>
  BY DEF SaveTruncate, SaveWrite, SaveFails, TheoryTruncate, TheoryWrite, TheoryFails
<1>4. HeldType(p)'
  BY <1>1, <1>3 DEF TypeInv, HeldType, ReadType
<1>5. CacheFile(index) /\ CacheFile(theory) /\ Parsed(pages[p], clock)
  BY DEF TypeInv, CachesType, HeldType
<1>6. ASSUME NEW file, file \in {Empty} \cup Written(index, pages[p]) \cup Written(theory, pages[p])
      PROVE  CacheFile(file)
  BY <1>1, <1>5, <1>6, WrittenType, NoneParsed DEF CacheFile, Empty
<1>7. index' \in {index, Empty} \cup Written(index, pages[p])
  BY DEF SaveTruncate, SaveWrite, SaveFails, TheoryTruncate, TheoryWrite, TheoryFails,
         cacheVars
<1>8. theory' \in {theory, Empty} \cup Written(theory, pages[p])
  BY DEF SaveTruncate, SaveWrite, SaveFails, TheoryTruncate, TheoryWrite, TheoryFails,
         cacheVars
<1>9. CachesType'
  BY <1>1, <1>5, <1>6, <1>7, <1>8 DEF CachesType, CacheFile
<1>. QED BY <1>1, <1>2, <1>3, <1>4, <1>9, ProcType

LEMMA QueryType ==
  ASSUME TypeInv, NEW p \in Procs, Check(p) \/ Reuse(p) \/ Build(p)
  PROVE  TypeInv'
<1>1. UNCHANGED vaultVars /\ CachesType' /\ clock' = clock
  BY DEF TypeInv, CachesType, CacheFile, Check, Reuse, Build, cacheVars, vaultVars
<1>2. ProcsType' /\ Shape'
  BY DEF TypeInv, ProcsType, Shape, Check, Reuse, Build, Goto, Stages
<1>3. /\ basis'[p] \in {theory.pages, pages[p]} /\ UNCHANGED <<cached, read, scan, pages>>
      /\ \A q \in Procs \ {p} : basis'[q] = basis[q]
  BY DEF TypeInv, Shape, Check, Reuse, Build
<1>4. Parsed(theory.pages, clock) /\ Parsed(pages[p], clock)
  BY DEF TypeInv, CachesType, CacheFile, HeldType
<1>5. HeldType(p)'
  BY <1>1, <1>3, <1>4 DEF TypeInv, HeldType, ReadType
<1>. QED BY <1>1, <1>2, <1>3, <1>5, ProcType

LEMMA WipeType ==
  ASSUME TypeInv, Wipe
  PROVE  TypeInv'
<1>1. FilesType' /\ ProcsType' /\ Shape' /\ clock' = clock /\ clock \in Nat
  BY DEF TypeInv, FilesType, ProcsType, Shape, Wipe, vaultVars, procVars
<1>2. CachesType'
  BY <1>1, NoneParsed DEF CachesType, CacheFile, Wipe, Missing
<1>3. \A p \in Procs : HeldType(p)'
  BY <1>1 DEF TypeInv, HeldType, ReadType, Wipe, procVars
<1>. QED BY <1>1, <1>2, <1>3 DEF TypeInv

LEMMA TypeStep == TypeInv /\ [Next]_vars => TypeInv'
<1>. SUFFICES ASSUME TypeInv, [Next]_vars PROVE TypeInv'
  OBVIOUS
<1>1. ASSUME NEW f \in Files, Write(f) \/ Delete(f) PROVE TypeInv'
  BY <1>1, WriteType, DeleteType
<1>2. CASE Wipe
  BY <1>2, WipeType
<1>3. ASSUME NEW p \in Procs, NEW c \in Commands, Start(p, c) PROVE TypeInv'
  BY <1>3, StartType
<1>4. ASSUME NEW p \in Procs, Scanning(p) PROVE TypeInv'
  BY <1>4, LoadType, EndType, ReadType1, StatType, MergeType, SaveType
     DEF Scanning, LoadFails, ScanFails
<1>5. ASSUME NEW p \in Procs, Querying(p) PROVE TypeInv'
  BY <1>5, QueryType, SaveType DEF Querying
<1>6. ASSUME NEW p \in Procs, Done(p) \/ Kill(p) PROVE TypeInv'
  BY <1>6, EndType DEF Done, Kill
<1>7. CASE UNCHANGED vars
  BY <1>7 DEF vars, vaultVars, cacheVars, procVars, TypeInv, FilesType, CachesType, CacheFile,
              ProcsType, Shape, HeldType, ReadType, Parsed
<1>. QED BY <1>1, <1>2, <1>3, <1>4, <1>5, <1>6, <1>7 DEF Next

\* Types: what the commands hold and leave in the caches (VaultTypeOK).
THEOREM VaultTypeCorrect == Spec => []VaultTypeOK
<1>1. Spec => []TypeInv
  BY TypeInit, TypeStep, PTL DEF Spec
<1>. QED BY <1>1, TypeInvImplies, PTL

-----------------------------------------------------------------------------
(* The index and the files. *)

\* A text that was read is the text of the file, or the file was written since
\* then and the write is recorded as raced.
ReadIsNow(p) ==
  \A f \in DOMAIN read[p] : read[p][f] = text[f] \/ <<f, mtime[f]>> \in raced

\* The pages that a command loaded, scanned or works on, as those of the index.
HeldFollows(p) ==
  Follows(cached[p]) /\ Follows(scan[p]) /\ Follows(pages[p]) /\ ReadIsNow(p)

FollowInv == TypeInv /\ Follows(index.pages) /\ \A p \in Procs : HeldFollows(p)

LEMMA NoneFollows == Follows(NoPages)
  BY DEF Follows, NoPages

LEMMA FollowInit == Init => FollowInv
<1>. SUFFICES ASSUME Init PROVE FollowInv
  OBVIOUS
<1>1. Follows(index.pages)
  BY NoneFollows DEF Init, Missing
<1>2. \A p \in Procs : HeldFollows(p)
  BY NoneFollows DEF Init, HeldFollows, ReadIsNow, NoPages
<1>. QED BY <1>1, <1>2, TypeInit DEF FollowInv

\* A write gives a file an mtime that no parsed page has.
LEMMA WriteFollows ==
  ASSUME FollowInv, NEW f \in Files, Write(f)
  PROVE  Follows(index.pages)' /\ \A p \in Procs : HeldFollows(p)'
<1>1. /\ clock \in Nat /\ clock' = clock + 1 /\ mtime' = [mtime EXCEPT ![f] = clock']
      /\ mtime \in [Files -> 0..clock] /\ text \in [Files -> Texts]
      /\ UNCHANGED <<cacheVars, procVars>>
  BY DEF FollowInv, TypeInv, FilesType, Write
<1>2. PICK t \in Texts : text' = [text EXCEPT ![f] = t]
  BY DEF Write
<1>3. /\ raced \subseteq raced'
      /\ \A p \in Procs : f \in DOMAIN read[p] => <<f, clock'>> \in raced'
  BY DEF Write
<1>4. ASSUME NEW ps, Parsed(ps, clock), \A g \in DOMAIN ps :
               ps[g].mtime = mtime[g] /\ <<g, mtime[g]>> \notin raced => Root(ps[g].text) = Root(text[g]),
             NEW g \in DOMAIN ps, ps[g].mtime = mtime'[g], <<g, mtime'[g]>> \notin raced'
      PROVE  Root(ps[g].text) = Root(text'[g])
  <2>1. g \in Files /\ ps[g].mtime \in 0..clock
    BY <1>1, <1>4, ParsedEntry
  <2>2. g # f
    BY <1>1, <1>4, <2>1
  <2>3. mtime'[g] = mtime[g] /\ text'[g] = text[g]
    BY <1>1, <1>2, <2>1, <2>2
  <2>. QED BY <1>3, <1>4, <2>3
<1>5. ASSUME NEW ps, Parsed(ps, clock), Follows(ps) PROVE
        \A g \in DOMAIN ps :
          ps[g].mtime = mtime'[g] /\ <<g, mtime'[g]>> \notin raced' => Root(ps[g].text) = Root(text'[g])
  BY <1>4, <1>5 DEF Follows
<1>6. Follows(index.pages)'
  <2>1. Follows(index.pages) /\ Parsed(index.pages, clock) /\ index' = index
    BY <1>1 DEF FollowInv, TypeInv, CachesType, CacheFile, cacheVars
  <2>. QED BY <1>5, <2>1 DEF Follows
<1>7. ASSUME NEW p \in Procs PROVE HeldFollows(p)'
  <2>1. UNCHANGED <<cached, scan, pages, read>>
    BY <1>1 DEF procVars
  <2>2. /\ Follows(cached[p]) /\ Follows(scan[p]) /\ Follows(pages[p]) /\ ReadIsNow(p)
        /\ Parsed(cached[p], clock) /\ Parsed(scan[p], clock) /\ Parsed(pages[p], clock)
        /\ DOMAIN read[p] \subseteq Files
    BY DEF FollowInv, HeldFollows, TypeInv, HeldType, ReadType
  <2>3. Follows(cached[p])' /\ Follows(scan[p])' /\ Follows(pages[p])'
    BY <1>5, <2>1, <2>2 DEF Follows
  <2>4. ASSUME NEW g \in DOMAIN read[p]
        PROVE  read[p][g] = text'[g] \/ <<g, mtime'[g]>> \in raced'
    <3>1. CASE g = f
      BY <1>1, <1>3, <2>2, <3>1
    <3>2. CASE g # f
      BY <1>1, <1>2, <1>3, <2>2, <3>2 DEF ReadIsNow
    <3>. QED BY <3>1, <3>2
  <2>. QED BY <2>1, <2>3, <2>4 DEF HeldFollows, ReadIsNow
<1>. QED BY <1>6, <1>7

\* A step of a process leaves the files as they are: what it needs of the index
\* and of what it holds.
LEMMA ProcFollows ==
  ASSUME FollowInv, UNCHANGED <<text, mtime, raced>>,
         NEW p \in Procs, Follows(index'.pages),
         Follows(cached'[p]), Follows(scan'[p]), Follows(pages'[p]),
         \A f \in DOMAIN read'[p] : read'[p][f] = text[f] \/ <<f, mtime[f]>> \in raced,
         \A q \in Procs \ {p} : UNCHANGED <<cached[q], read[q], scan[q], pages[q]>>
  PROVE  Follows(index.pages)' /\ \A q \in Procs : HeldFollows(q)'
<1>1. Follows(index.pages)'
  BY DEF Follows
<1>2. HeldFollows(p)'
  BY DEF Follows, HeldFollows, ReadIsNow
<1>3. ASSUME NEW q \in Procs, q # p PROVE HeldFollows(q)'
  BY <1>3 DEF FollowInv, Follows, HeldFollows, ReadIsNow
<1>. QED BY <1>1, <1>2, <1>3

LEMMA MergedFollows ==
  ASSUME NEW old, NEW new, clock \in Nat, Parsed(old, clock), Parsed(new, clock),
         Follows(old), Follows(new)
  PROVE  Follows(Merged(old, new))
<1>1. DOMAIN Merged(old, new) = DOMAIN new
  BY DEF Merged
<1>2. ASSUME NEW f \in DOMAIN new, Merged(old, new)[f].mtime = mtime[f],
             <<f, mtime[f]>> \notin raced
      PROVE  Root(Merged(old, new)[f].text) = Root(text[f])
  <2>1. new[f].mtime = mtime[f] /\ Root(new[f].text) = Root(text[f])
    BY <1>2, MergedEntry DEF Follows
  <2>2. f \in DOMAIN old /\ old[f].mtime = new[f].mtime => Root(old[f].text) = Root(text[f])
    BY <1>2, <2>1 DEF Follows
  <2>. QED BY <2>1, <2>2, MergedEntry
<1>. QED BY <1>1, <1>2 DEF Follows

LEMMA EndFollows ==
  ASSUME FollowInv, NEW p \in Procs, End(p)
  PROVE  Follows(index.pages)' /\ \A q \in Procs : HeldFollows(q)'
<1>1. /\ cached'[p] = NoPages /\ read'[p] = NoPages /\ scan'[p] = NoPages /\ pages'[p] = NoPages
      /\ \A q \in Procs \ {p} : UNCHANGED <<cached[q], read[q], scan[q], pages[q]>>
      /\ index' = index /\ UNCHANGED <<text, mtime, raced>>
  BY DEF FollowInv, TypeInv, Shape, End, cacheVars, vaultVars
<1>2. Follows(index.pages) /\ \A f \in DOMAIN NoPages : FALSE
  BY DEF FollowInv, NoPages
<1>. QED BY <1>1, <1>2, NoneFollows, ProcFollows

LEMMA LoadFollows ==
  ASSUME FollowInv, NEW p \in Procs, Load(p)
  PROVE  Follows(index.pages)' /\ \A q \in Procs : HeldFollows(q)'
<1>1. /\ cached'[p] \in {NoPages, index.pages} /\ UNCHANGED <<read, scan, pages>>
      /\ \A q \in Procs \ {p} : cached'[q] = cached[q]
      /\ index' = index /\ UNCHANGED <<text, mtime, raced>>
  BY DEF FollowInv, TypeInv, Shape, Load, cacheVars, vaultVars
<1>2. Follows(index.pages) /\ HeldFollows(p)
  BY DEF FollowInv
<1>3. Follows(cached'[p])
  BY <1>1, <1>2, NoneFollows
<1>. QED BY <1>1, <1>2, <1>3, ProcFollows DEF HeldFollows, ReadIsNow

LEMMA ReadFollows ==
  ASSUME FollowInv, NEW p \in Procs, NEW f \in Files, ReadFile(p, f)
  PROVE  Follows(index.pages)' /\ \A q \in Procs : HeldFollows(q)'
<1>1. /\ read'[p] = [g \in {f} \cup DOMAIN read[p] |-> IF g = f THEN text[f] ELSE read[p][g]]
      /\ UNCHANGED <<cached, scan, pages>>
      /\ \A q \in Procs \ {p} : read'[q] = read[q]
      /\ index' = index /\ UNCHANGED <<text, mtime, raced>>
  BY DEF FollowInv, TypeInv, Shape, ReadFile, cacheVars, vaultVars
<1>2. Follows(index.pages) /\ HeldFollows(p)
  BY DEF FollowInv
<1>3. \A g \in DOMAIN read'[p] : read'[p][g] = text[g] \/ <<g, mtime[g]>> \in raced
  BY <1>1, <1>2 DEF HeldFollows, ReadIsNow
<1>. QED BY <1>1, <1>2, <1>3, ProcFollows DEF HeldFollows

LEMMA StatFollows ==
  ASSUME FollowInv, NEW p \in Procs, NEW f \in Files, StatFile(p, f)
  PROVE  Follows(index.pages)' /\ \A q \in Procs : HeldFollows(q)'
<1>1. /\ scan'[p] = [g \in {f} \cup DOMAIN scan[p] |->
                       IF g = f THEN [text |-> read[p][f], mtime |-> mtime[f]] ELSE scan[p][g]]
      /\ read'[p] = [g \in DOMAIN read[p] \ {f} |-> read[p][g]]
      /\ UNCHANGED <<cached, pages>>
      /\ \A q \in Procs \ {p} : read'[q] = read[q] /\ scan'[q] = scan[q]
      /\ index' = index /\ UNCHANGED <<text, mtime, raced>> /\ f \in DOMAIN read[p]
  BY DEF FollowInv, TypeInv, Shape, StatFile, cacheVars, vaultVars
<1>2. Follows(index.pages) /\ HeldFollows(p)
  BY DEF FollowInv
<1>3. \A g \in DOMAIN read'[p] : read'[p][g] = text[g] \/ <<g, mtime[g]>> \in raced
  BY <1>1, <1>2 DEF HeldFollows, ReadIsNow
<1>4. Follows(scan'[p])
  <2>1. read[p][f] = text[f] \/ <<f, mtime[f]>> \in raced
    BY <1>1, <1>2 DEF HeldFollows, ReadIsNow
  <2>2. Follows(scan[p])
    BY <1>2 DEF HeldFollows
  <2>3. ASSUME NEW g \in DOMAIN scan'[p], scan'[p][g].mtime = mtime[g], <<g, mtime[g]>> \notin raced
        PROVE  Root(scan'[p][g].text) = Root(text[g])
    <3>1. CASE g = f
      BY <1>1, <2>1, <2>3, <3>1
    <3>2. CASE g # f
      BY <1>1, <2>2, <2>3, <3>2 DEF Follows
    <3>. QED BY <3>1, <3>2
  <2>. QED BY <2>3 DEF Follows
<1>. QED BY <1>1, <1>2, <1>3, <1>4, ProcFollows DEF HeldFollows

LEMMA MergeFollows ==
  ASSUME FollowInv, NEW p \in Procs, Merge(p)
  PROVE  Follows(index.pages)' /\ \A q \in Procs : HeldFollows(q)'
<1>1. /\ pages'[p] = Merged(cached[p], scan[p]) /\ cached'[p] = NoPages
      /\ UNCHANGED <<read, scan>>
      /\ \A q \in Procs \ {p} : pages'[q] = pages[q] /\ cached'[q] = cached[q]
      /\ index' = index /\ UNCHANGED <<text, mtime, raced>>
  BY DEF FollowInv, TypeInv, Shape, Merge, cacheVars, vaultVars
<1>2. /\ Follows(index.pages) /\ HeldFollows(p) /\ clock \in Nat
      /\ Parsed(cached[p], clock) /\ Parsed(scan[p], clock)
  BY DEF FollowInv, TypeInv, FilesType, HeldType
<1>3. Follows(pages'[p]) /\ Follows(cached'[p])
  BY <1>1, <1>2, MergedFollows, NoneFollows DEF HeldFollows
<1>. QED BY <1>1, <1>2, <1>3, ProcFollows DEF HeldFollows, ReadIsNow

\* The steps that change neither the files nor what the process holds of them.
LEMMA SaveFollows ==
  ASSUME FollowInv, NEW p \in Procs,
         UNCHANGED <<text, mtime, raced, cached, read, scan, pages>>,
         index' \in {index, Empty} \cup Written(index, pages[p])
  PROVE  Follows(index.pages)' /\ \A q \in Procs : HeldFollows(q)'
<1>1. Follows(index.pages) /\ HeldFollows(p) /\ clock \in Nat /\ Parsed(pages[p], clock)
  BY DEF FollowInv, TypeInv, FilesType, HeldType
<1>2. index'.pages \in {index.pages, NoPages, pages[p]}
  BY <1>1, WrittenType DEF Empty
<1>3. Follows(index'.pages)
  BY <1>1, <1>2, NoneFollows DEF HeldFollows
<1>. QED BY <1>1, <1>3, ProcFollows DEF HeldFollows, ReadIsNow

LEMMA FollowStep == FollowInv /\ [Next]_vars => FollowInv'
<1>. SUFFICES ASSUME FollowInv, [Next]_vars
              PROVE  Follows(index.pages)' /\ \A p \in Procs : HeldFollows(p)'
  BY TypeStep DEF FollowInv
<1>1. ASSUME NEW f \in Files, Write(f) PROVE Follows(index.pages)' /\ \A p \in Procs : HeldFollows(p)'
  BY <1>1, WriteFollows
<1>2. ASSUME NEW f \in Files, Delete(f)
      PROVE  Follows(index.pages)' /\ \A p \in Procs : HeldFollows(p)'
  BY <1>2 DEF Delete, FollowInv, Follows, HeldFollows, ReadIsNow, cacheVars, procVars
<1>3. CASE Wipe
  <2>1. Follows(index'.pages)
    BY <1>3, NoneFollows DEF Wipe, Missing
  <2>. QED BY <1>3, <2>1 DEF Wipe, FollowInv, Follows, HeldFollows, ReadIsNow, vaultVars, procVars
<1>4. ASSUME NEW p \in Procs, NEW c \in Commands, Start(p, c)
      PROVE  Follows(index.pages)' /\ \A q \in Procs : HeldFollows(q)'
  BY <1>4, SaveFollows DEF Start, cacheVars, vaultVars
<1>5. ASSUME NEW p \in Procs, Scanning(p)
      PROVE  Follows(index.pages)' /\ \A q \in Procs : HeldFollows(q)'
  <2>1. ASSUME SaveTruncate(p) \/ SaveWrite(p) \/ SaveFails(p)
        PROVE  Follows(index.pages)' /\ \A q \in Procs : HeldFollows(q)'
    BY <2>1, SaveFollows DEF SaveTruncate, SaveWrite, SaveFails, cacheVars, vaultVars
  <2>. QED BY <1>5, <2>1, LoadFollows, EndFollows, ReadFollows, StatFollows, MergeFollows
           DEF Scanning, LoadFails, ScanFails
<1>6. ASSUME NEW p \in Procs, Querying(p)
      PROVE  Follows(index.pages)' /\ \A q \in Procs : HeldFollows(q)'
  BY <1>6, SaveFollows
     DEF Querying, Check, Reuse, Build, TheoryTruncate, TheoryWrite, TheoryFails, cacheVars, vaultVars
<1>7. ASSUME NEW p \in Procs, Done(p) \/ Kill(p)
      PROVE  Follows(index.pages)' /\ \A q \in Procs : HeldFollows(q)'
  BY <1>7, EndFollows DEF Done, Kill
<1>8. CASE UNCHANGED vars
  BY <1>8 DEF vars, vaultVars, cacheVars, procVars, FollowInv, Follows, HeldFollows, ReadIsNow
<1>. QED BY <1>1, <1>2, <1>3, <1>4, <1>5, <1>6, <1>7, <1>8 DEF Next

\* A page of the index with the mtime of its file has its content, whatever
\* commands saved it, unless the file was written under a scan
\* (IndexFollowsFiles).
THEOREM IndexIsNeverAhead == Spec => []IndexFollowsFiles
<1>1. FollowInv => IndexFollowsFiles
  BY DEF FollowInv, IndexFollowsFiles
<1>2. Spec => []FollowInv
  BY FollowInit, FollowStep, PTL DEF Spec
<1>. QED BY <1>1, <1>2, PTL

-----------------------------------------------------------------------------
(* Lists of lines.                                                         *)
(*                                                                         *)
(* Two texts with the same root have the same hashes in the same order:    *)
(* there is a matching of their positions that keeps hashes and order.     *)
(* The hash of a heading or a block is its own, so that whatever is listed *)
(* of the leaves of one text is listed of the other's too, the rules and   *)
(* the section of a block among them.  Not so the typed links.             *)

Number(S, i) == Cardinality({k \in S : k <= i})
Positions(S) == IsFiniteSet(S) /\ S \subseteq Nat

LEMMA TextPositions ==
  ASSUME NEW t \in Texts, NEW S \in SUBSET DOMAIN t
  PROVE  Positions(S) /\ \A i \in DOMAIN t : t[i] \in Lines /\ i \in Nat \ {0}
<1>1. t \in Seq(Lines)
  BY VaultAssumption
<1>2. DOMAIN t = 1..Len(t) /\ Len(t) \in Nat /\ \A i \in 1..Len(t) : t[i] \in Lines
  BY <1>1
<1>3. 1..Len(t) \subseteq Nat \ {0}
  BY <1>2
<1>4. IsFiniteSet(1..Len(t))
  BY <1>2, FS_Interval
<1>. QED BY <1>4, <1>2, <1>3, FS_Subset DEF Positions

LEMMA NumberLess ==
  ASSUME NEW S, Positions(S), NEW i \in S, NEW j \in S
  PROVE  Number(S, i) \in Nat /\ (i < j => Number(S, i) < Number(S, j))
<1>. DEFINE A == {k \in S : k <= i}
            B == {k \in S : k <= j}
<1>1. IsFiniteSet(A) /\ IsFiniteSet(B)
  BY FS_Subset DEF Positions
<1>2. Cardinality(A) \in Nat /\ Cardinality(B) \in Nat
  BY <1>1, FS_CardinalityType
<1>3. ASSUME i < j PROVE Cardinality(A) < Cardinality(B)
  <2>1. A \subseteq B \ {j} /\ j \in B
    <3>1. i \in Nat /\ j \in Nat /\ \A k \in S : k \in Nat
      BY DEF Positions
    <3>2. j \in B
      BY <3>1
    <3>3. \A k \in A : k \in S /\ k <= j /\ k # j
      BY <1>3, <3>1
    <3>. QED BY <3>2, <3>3
  <2>2. IsFiniteSet(B \ {j}) /\ Cardinality(B \ {j}) = Cardinality(B) - 1
    BY <1>1, <2>1, FS_RemoveElement
  <2>3. Cardinality(A) <= Cardinality(B \ {j})
    BY <2>1, <2>2, FS_Subset
  <2>. QED BY <1>2, <2>2, <2>3
<1>. QED BY <1>2, <1>3 DEF Number

Matches(h, t, S, u, T) ==
  /\ h \in [S -> T]
  /\ \A k \in T : \E i \in S : h[i] = k
  /\ \A i \in S : t[i] = u[h[i]]
  /\ \A i, j \in S : i < j <=> h[i] < h[j]

LEMMA ListedMatches ==
  ASSUME NEW t, NEW u, NEW S, NEW T, Positions(S), Positions(T), Listed(t, S) = Listed(u, T)
  PROVE  \E h : Matches(h, t, S, u, T)
<1>. DEFINE h == [i \in S |-> CHOOSE k \in T : Number(T, k) = Number(S, i) /\ u[k] = t[i]]
<1>1. \A i \in S : <<Number(S, i), t[i]>> \in Listed(u, T)
  BY DEF Listed, Number
<1>2. \A k \in T : <<Number(T, k), u[k]>> \in Listed(t, S)
  BY DEF Listed, Number
<1>3. \A i \in S : \E k \in T : Number(T, k) = Number(S, i) /\ u[k] = t[i]
  BY <1>1 DEF Listed, Number
<1>4. \A k \in T : \E i \in S : Number(T, k) = Number(S, i) /\ u[k] = t[i]
  BY <1>2 DEF Listed, Number
<1>5. h \in [S -> T] /\ \A i \in S : Number(T, h[i]) = Number(S, i) /\ u[h[i]] = t[i]
  BY <1>3
<1>. HIDE DEF h
<1>6. \A k, l \in T : Number(T, k) = Number(T, l) => k = l
  <2>. SUFFICES ASSUME NEW k \in T, NEW l \in T, k # l PROVE Number(T, k) # Number(T, l)
    OBVIOUS
  <2>1. k < l \/ l < k
    BY DEF Positions
  <2>2. Number(T, k) \in Nat /\ Number(T, l) \in Nat
    BY NumberLess
  <2>3. Number(T, k) < Number(T, l) \/ Number(T, l) < Number(T, k)
    BY <2>1, NumberLess
  <2>. QED BY <2>2, <2>3
<1>7. \A k \in T : \E i \in S : h[i] = k
  BY <1>4, <1>5, <1>6
<1>8. ASSUME NEW i \in S, NEW j \in S PROVE i < j <=> h[i] < h[j]
  <2>1. /\ i \in Nat /\ j \in Nat /\ h[i] \in T /\ h[j] \in T /\ h[i] \in Nat /\ h[j] \in Nat
        /\ Number(S, i) \in Nat /\ Number(S, j) \in Nat
        /\ Number(T, h[i]) = Number(S, i) /\ Number(T, h[j]) = Number(S, j)
    BY <1>5, NumberLess DEF Positions
  <2>2. ASSUME i < j PROVE h[i] < h[j]
    <3>1. Number(S, i) < Number(S, j)
      BY <2>2, NumberLess
    <3>2. h[j] < h[i] => Number(S, j) < Number(S, i)
      BY <2>1, NumberLess
    <3>3. h[i] # h[j]
      BY <2>1, <3>1
    <3>. QED BY <2>1, <3>1, <3>2, <3>3
  <2>3. ASSUME h[i] < h[j] PROVE i < j
    <3>1. Number(S, i) < Number(S, j)
      BY <2>1, <2>3, NumberLess
    <3>2. j < i => Number(S, j) < Number(S, i)
      BY NumberLess
    <3>. QED BY <2>1, <3>1, <3>2
  <2>. QED BY <2>2, <2>3
<1>. QED BY <1>5, <1>7, <1>8 DEF Matches

LEMMA MatchesListed ==
  ASSUME NEW t, NEW u, NEW S, NEW T, NEW h, Positions(S), Positions(T), Matches(h, t, S, u, T)
  PROVE  Listed(t, S) = Listed(u, T)
<1>1. ASSUME NEW i \in S PROVE Number(S, i) = Number(T, h[i])
  <2>. DEFINE A == {k \in S : k <= i}
              B == {k \in T : k <= h[i]}
              g == [k \in A |-> h[k]]
  <2>0. /\ h \in [S -> T] /\ h[i] \in T
        /\ \A k \in T : \E j \in S : h[j] = k
        /\ \A k \in S : k \in Nat /\ h[k] \in Nat
    BY DEF Matches, Positions
  <2>1. \A k, l \in S : h[k] = h[l] => k = l
    <3>. SUFFICES ASSUME NEW k \in S, NEW l \in S, k # l PROVE h[k] # h[l]
      OBVIOUS
    <3>1. k < l \/ l < k
      BY <2>0
    <3>2. h[k] < h[l] \/ h[l] < h[k]
      BY <3>1 DEF Matches
    <3>. QED BY <2>0, <3>2
  <2>2. \A k \in S : k <= i <=> h[k] <= h[i]
    <3>. TAKE k \in S
    <3>1. i < k <=> h[i] < h[k]
      BY DEF Matches
    <3>. QED BY <2>0, <3>1
  <2>3. g \in [A -> B] /\ \A k, l \in A : g[k] = g[l] => k = l
    BY <2>0, <2>1, <2>2
  <2>4. \A k \in B : \E j \in A : g[j] = k
    BY <2>0, <2>2
  <2>. HIDE DEF g
  <2>5. ExistsBijection(A, B)
    <3>. HIDE DEF A, B
    <3>1. g \in Bijection(A, B)
      BY <2>3, <2>4 DEF Bijection, Injection, Surjection, IsInjective
    <3>. QED BY <3>1 DEF ExistsBijection
  <2>6. IsFiniteSet(A)
    BY FS_Subset DEF Positions
  <2>7. Cardinality(A) = Cardinality(B)
    BY <2>5, <2>6, FS_Bijection
  <2>. QED BY <2>7 DEF Number
<1>2. \A i \in S : <<Number(S, i), t[i]>> = <<Number(T, h[i]), u[h[i]]>> /\ h[i] \in T
  BY <1>1 DEF Matches
<1>3. \A k \in T : \E i \in S : h[i] = k
  BY DEF Matches
<1>. DEFINE L(i) == <<Number(S, i), t[i]>>
            M(k) == <<Number(T, k), u[k]>>
<1>4. \A i \in S : L(i) = M(h[i]) /\ h[i] \in T
  BY <1>2
<1>5. Listed(t, S) = {L(i) : i \in S} /\ Listed(u, T) = {M(k) : k \in T}
  BY DEF Listed, Number
<1>. HIDE DEF L, M
<1>6. {L(i) : i \in S} = {M(k) : k \in T}
  BY <1>3, <1>4
<1>. QED BY <1>5, <1>6

\* A part of the positions matches the part that it is matched to.
LEMMA PartListed ==
  ASSUME NEW t, NEW u, NEW S, NEW T, NEW h, Positions(S), Positions(T), Matches(h, t, S, u, T),
         NEW A \in SUBSET S, NEW B \in SUBSET T, \A i \in S : i \in A <=> h[i] \in B
  PROVE  Listed(t, A) = Listed(u, B)
<1>. DEFINE g == [i \in A |-> h[i]]
<1>1. h \in [S -> T] /\ \A k \in T : \E i \in S : h[i] = k
  BY DEF Matches
<1>2. g \in [A -> B] /\ \A k \in B : \E i \in A : g[i] = k
  BY <1>1
<1>3. \A i \in A : t[i] = u[g[i]]
  BY DEF Matches
<1>4. \A i, j \in A : i < j <=> g[i] < g[j]
  BY DEF Matches
<1>. HIDE DEF g
<1>5. Matches(g, t, A, u, B)
  BY <1>2, <1>3, <1>4 DEF Matches
<1>6. Positions(A) /\ Positions(B)
  BY FS_Subset DEF Positions
<1>. QED BY <1>5, <1>6, MatchesListed

Leaves(t) == {i \in DOMAIN t : IsLeaf(t[i])}
Leafwise(h, t, u) == Matches(h, Hashes(t), Leaves(t), Hashes(u), Leaves(u))

LEMMA LineKinds ==
  ASSUME NEW l \in Lines
  PROVE  /\ IsBlock(l) => IsLeaf(l) /\ l \in [kind : {"spl"}, logic : Logics]
         /\ l.kind = "head" => IsLeaf(l) /\ l \in [kind : {"head"}, level : Levels]
         /\ l.kind = "prose" => IsLeaf(l)
  BY DEF Lines, Blank, IsBlock, IsLeaf

LEMMA HashOf ==
  ASSUME NEW l
  PROVE  /\ l.kind = "prose" => Hashed(l).kind = "prose"
         /\ l.kind # "prose" => Hashed(l) = l
  BY DEF Hashed

LEMMA HashesOf ==
  ASSUME NEW t
  PROVE  DOMAIN Hashes(t) = DOMAIN t /\ \A i \in DOMAIN t : Hashes(t)[i] = Hashed(t[i])
  BY DEF Hashes

SameLine(l, m) == l.kind = m.kind /\ (l.kind # "prose" => l = m)

\* Leaves that are matched are of one kind, and are the same if they are not
\* prose.
LEMMA LeafwiseLines ==
  ASSUME NEW t, NEW u, NEW h, Leafwise(h, t, u)
  PROVE  /\ h \in [Leaves(t) -> Leaves(u)] /\ \A k \in Leaves(u) : \E j \in Leaves(t) : h[j] = k
         /\ \A j \in Leaves(t) : SameLine(t[j], u[h[j]])
         /\ \A j, k \in Leaves(t) : j < k <=> h[j] < h[k]
<1>1. /\ h \in [Leaves(t) -> Leaves(u)] /\ \A k \in Leaves(u) : \E j \in Leaves(t) : h[j] = k
      /\ \A j \in Leaves(t) : Hashes(t)[j] = Hashes(u)[h[j]]
      /\ \A j, k \in Leaves(t) : j < k <=> h[j] < h[k]
  BY DEF Leafwise, Matches
<1>2. ASSUME NEW j \in Leaves(t)
      PROVE  SameLine(t[j], u[h[j]])
  <2>1. j \in DOMAIN t /\ h[j] \in DOMAIN u
    BY <1>1 DEF Leaves
  <2>2. Hashed(t[j]) = Hashed(u[h[j]])
    BY <1>1, <2>1, HashesOf
  <2>3. CASE t[j].kind = "prose" /\ u[h[j]].kind = "prose"
    BY <2>3 DEF SameLine
  <2>4. CASE t[j].kind = "prose" /\ u[h[j]].kind # "prose"
    BY <2>2, <2>4, HashOf DEF SameLine
  <2>5. CASE t[j].kind # "prose" /\ u[h[j]].kind = "prose"
    BY <2>2, <2>5, HashOf DEF SameLine
  <2>6. CASE t[j].kind # "prose" /\ u[h[j]].kind # "prose"
    BY <2>2, <2>6, HashOf DEF SameLine
  <2>. QED BY <2>3, <2>4, <2>5, <2>6
<1>. QED BY <1>1, <1>2

LEMMA SameRootMatches ==
  ASSUME NEW t \in Texts, NEW u \in Texts, Root(t) = Root(u)
  PROVE  /\ \E h : Leafwise(h, t, u)
         /\ Positions(Leaves(t)) /\ Positions(Leaves(u))
<1>1. Positions(Leaves(t)) /\ Positions(Leaves(u))
  BY TextPositions DEF Leaves
<1>. QED BY <1>1, ListedMatches DEF Root, Leaves, Leafwise

LEMMA SameRules ==
  ASSUME NEW t \in Texts, NEW u \in Texts, Root(t) = Root(u)
  PROVE  Rules(t) = Rules(u)
<1>. DEFINE A == {i \in DOMAIN t : Parses(t[i])}
            B == {i \in DOMAIN u : Parses(u[i])}
<1>1. PICK h : Leafwise(h, t, u)
  BY SameRootMatches
<1>0. h \in [Leaves(t) -> Leaves(u)] /\ \A i \in Leaves(t) : SameLine(t[i], u[h[i]])
  BY <1>1, LeafwiseLines
<1>2. /\ \A i \in DOMAIN t : Parses(t[i]) => IsLeaf(t[i])
      /\ \A i \in DOMAIN u : Parses(u[i]) => IsLeaf(u[i])
  BY TextPositions, LineKinds DEF Parses
<1>3. A \subseteq Leaves(t) /\ B \subseteq Leaves(u)
  BY <1>2 DEF Leaves
<1>4. ASSUME NEW i \in Leaves(t) PROVE i \in A <=> h[i] \in B
  <2>1. i \in DOMAIN t /\ h[i] \in DOMAIN u
    BY <1>0 DEF Leaves
  <2>2. SameLine(t[i], u[h[i]])
    BY <1>0
  <2>. QED BY <2>1, <2>2 DEF Parses, IsBlock, SameLine
<1>5. /\ \A i \in A : Hashes(t)[i] = t[i]
      /\ \A i \in B : Hashes(u)[i] = u[i]
  BY HashesOf, HashOf DEF Parses, IsBlock
<1>6. Rules(t) = Listed(t, A) /\ Rules(u) = Listed(u, B)
  BY DEF Rules
<1>. HIDE DEF A, B
<1>7. Listed(Hashes(t), A) = Listed(Hashes(u), B)
  BY <1>1, <1>3, <1>4, SameRootMatches, PartListed DEF Leafwise
<1>8. Listed(Hashes(t), A) = Listed(t, A) /\ Listed(Hashes(u), B) = Listed(u, B)
  BY <1>5 DEF Listed
<1>. QED BY <1>6, <1>7, <1>8

\* Two texts with the same root have the same blocks.
LEMMA SameBlock ==
  ASSUME NEW t \in Texts, NEW u \in Texts, Root(t) = Root(u), NEW l \in Lines, IsBlock(l),
         NEW k \in DOMAIN u, u[k] = l
  PROVE  \E i \in DOMAIN t : t[i] = l
<1>1. PICK h : Leafwise(h, t, u)
  BY SameRootMatches
<1>2. IsLeaf(l)
  BY LineKinds
<1>3. k \in Leaves(u)
  BY <1>2 DEF Leaves
<1>4. /\ \A j \in Leaves(u) : \E i \in Leaves(t) : h[i] = j
      /\ \A i \in Leaves(t) : SameLine(t[i], u[h[i]])
  BY <1>1, LeafwiseLines
<1>5. PICK i \in Leaves(t) : h[i] = k
  BY <1>3, <1>4
<1>6. SameLine(t[i], u[k])
  BY <1>4, <1>5
<1>. QED BY <1>6 DEF Leaves, IsBlock, SameLine

\* The section of a block is where the block is, wherever that is.
LEMMA SameSection ==
  ASSUME NEW t \in Texts, NEW u \in Texts, Root(t) = Root(u), NEW h, Leafwise(h, t, u),
         NEW i \in Leaves(t)
  PROVE  Grounding(t, i) = Grounding(u, h[i])
<1>. DEFINE In(x, n, s, j) ==
              s \in SectionStart(x, n) /\ s <= j /\ \A k \in SectionEnds(x, s) : j < k
            A == {j \in DOMAIN t : IsProse(t[j]) /\ \E s \in SectionStart(t, i) : In(t, i, s, j)}
            B == {j \in DOMAIN u :
                    IsProse(u[j]) /\ \E s \in SectionStart(u, h[i]) : In(u, h[i], s, j)}
            S0 == {0} \cup Leaves(t)
            h0 == [s \in S0 |-> IF s = 0 THEN 0 ELSE h[s]]
<1>1. /\ \A j \in Leaves(t) : j \in Nat \ {0} /\ t[j] \in Lines
      /\ \A j \in Leaves(u) : j \in Nat \ {0} /\ u[j] \in Lines
  BY TextPositions DEF Leaves
<1>2. /\ h \in [Leaves(t) -> Leaves(u)] /\ \A k \in Leaves(u) : \E j \in Leaves(t) : h[j] = k
      /\ \A j \in Leaves(t) : SameLine(t[j], u[h[j]])
      /\ \A j, k \in Leaves(t) : j < k <=> h[j] < h[k]
  BY LeafwiseLines
<1>3. /\ h0[0] = 0
      /\ \A j \in Leaves(t) : h0[j] = h[j] /\ h0[j] \in Leaves(u)
      /\ \A j \in S0 : h0[j] \in Nat /\ j \in Nat
  BY <1>1, <1>2
<1>4. \A j, k \in S0 : j < k <=> h0[j] < h0[k]
  BY <1>1, <1>2
<1>. HIDE DEF h0
<1>5. /\ Heads(t) \subseteq Leaves(t) /\ Heads(u) \subseteq Leaves(u)
      /\ \A j \in Leaves(t) : j \in Heads(t) <=> h[j] \in Heads(u)
      /\ \A k \in Heads(u) : \E j \in Heads(t) : h0[j] = k
  <2>1. Heads(t) \subseteq Leaves(t) /\ Heads(u) \subseteq Leaves(u)
    BY TextPositions, LineKinds DEF Heads, Leaves
  <2>2. ASSUME NEW j \in Leaves(t) PROVE j \in Heads(t) <=> h[j] \in Heads(u)
    <3>1. j \in DOMAIN t /\ h[j] \in DOMAIN u /\ SameLine(t[j], u[h[j]])
      BY <1>2 DEF Leaves
    <3>. QED BY <3>1 DEF Heads, SameLine
  <2>. QED BY <1>2, <1>3, <2>1, <2>2
<1>6. \A k \in Heads(t) : h0[k] \in Heads(u) /\ k \in S0 /\ t[k].level = u[h0[k]].level
  <2>1. \A k \in Heads(t) : k \in Leaves(t) /\ t[k].kind = "head"
    BY <1>5 DEF Heads
  <2>. QED BY <1>2, <1>3, <1>5, <2>1 DEF SameLine
<1>7. ASSUME NEW s \in {0} \cup Heads(t)
      PROVE  s \in SectionStart(t, i) <=> h0[s] \in SectionStart(u, h[i])
  <2>0. s \in S0 /\ i \in S0 /\ h0[i] = h[i]
    BY <1>3, <1>5
  <2>1. h0[s] \in {0} \cup Heads(u)
    BY <1>3, <1>6
  <2>2. s < i <=> h0[s] < h[i]
    BY <1>4, <2>0
  <2>3. (\E k \in Heads(t) : s < k /\ k < i) => \E k \in Heads(u) : h0[s] < k /\ k < h[i]
    BY <1>4, <1>6, <2>0
  <2>4. ASSUME NEW k \in Heads(u), h0[s] < k, k < h[i]
        PROVE  \E m \in Heads(t) : s < m /\ m < i
    <3>1. PICK m \in Heads(t) : h0[m] = k
      BY <1>5
    <3>. QED BY <1>4, <1>6, <2>0, <2>4, <3>1
  <2>. QED BY <2>1, <2>2, <2>3, <2>4 DEF SectionStart
<1>8. ASSUME NEW s \in {0} \cup Heads(t), NEW k \in Heads(t)
      PROVE  k \in SectionEnds(t, s) <=> h0[k] \in SectionEnds(u, h0[s])
  <2>1. s \in S0 /\ k \in S0 /\ h0[k] \in Heads(u) /\ 0 \in S0
    BY <1>5, <1>6
  <2>2. (k > s <=> h0[k] > h0[s]) /\ (s > 0 <=> h0[s] > 0)
    <3>1. (s < k <=> h0[s] < h0[k]) /\ (0 < s <=> h0[0] < h0[s])
      BY <1>4, <2>1
    <3>. QED BY <1>3, <2>1, <3>1
  <2>3. s > 0 => t[s].level = u[h0[s]].level
    BY <1>6
  <2>4. t[k].level = u[h0[k]].level
    BY <1>6
  <2>. QED BY <2>1, <2>2, <2>3, <2>4 DEF SectionEnds
<1>9. ASSUME NEW s \in {0} \cup Heads(t), NEW j \in Leaves(t)
      PROVE  In(t, i, s, j) <=> In(u, h[i], h0[s], h[j])
  <2>1. s \in S0 /\ j \in S0 /\ h0[j] = h[j]
    BY <1>3, <1>5
  <2>2. s <= j <=> h0[s] <= h[j]
    <3>1. j < s <=> h0[j] < h0[s]
      BY <1>4, <2>1
    <3>. QED BY <1>3, <2>1, <3>1
  <2>3. (\A k \in SectionEnds(t, s) : j < k) => \A k \in SectionEnds(u, h0[s]) : h[j] < k
    <3>. SUFFICES ASSUME \A k \in SectionEnds(t, s) : j < k, NEW k \in SectionEnds(u, h0[s])
                  PROVE  h[j] < k
      OBVIOUS
    <3>1. PICK m \in Heads(t) : h0[m] = k
      BY <1>5 DEF SectionEnds
    <3>2. j < m /\ m \in S0
      BY <1>6, <1>8, <3>1
    <3>. QED BY <1>4, <2>1, <3>1, <3>2
  <2>4. (\A k \in SectionEnds(u, h0[s]) : h[j] < k) => \A k \in SectionEnds(t, s) : j < k
    <3>. SUFFICES ASSUME \A k \in SectionEnds(u, h0[s]) : h[j] < k, NEW k \in SectionEnds(t, s)
                  PROVE  j < k
      OBVIOUS
    <3>1. k \in Heads(t)
      BY DEF SectionEnds
    <3>2. h[j] < h0[k] /\ k \in S0
      BY <1>6, <1>8, <3>1
    <3>. QED BY <1>4, <2>1, <3>2
  <2>. QED BY <1>7, <2>2, <2>3, <2>4
<1>10. ASSUME NEW j \in Leaves(t) PROVE j \in A <=> h[j] \in B
  <2>1. j \in DOMAIN t /\ h[j] \in DOMAIN u /\ (IsProse(t[j]) <=> IsProse(u[h[j]]))
    <3>1. /\ j \in DOMAIN t /\ h[j] \in DOMAIN u /\ SameLine(t[j], u[h[j]])
          /\ IsLeaf(t[j]) /\ IsLeaf(u[h[j]])
      BY <1>2 DEF Leaves
    <3>. QED BY <3>1 DEF IsProse, IsBlock, SameLine
  <2>2. \A s \in SectionStart(t, i) : s \in {0} \cup Heads(t)
    BY DEF SectionStart
  <2>3. \A s \in SectionStart(u, h[i]) : \E r \in {0} \cup Heads(t) : h0[r] = s
    BY <1>3, <1>5 DEF SectionStart
  <2>4. (\E s \in SectionStart(t, i) : In(t, i, s, j)) =>
          \E s \in SectionStart(u, h[i]) : In(u, h[i], s, h[j])
    <3>. HIDE DEF In
    <3>. QED BY <1>7, <1>9, <2>2
  <2>5. (\E s \in SectionStart(u, h[i]) : In(u, h[i], s, h[j])) =>
          \E s \in SectionStart(t, i) : In(t, i, s, j)
    <3>. HIDE DEF In
    <3>. QED BY <1>7, <1>9, <2>3
  <2>. HIDE DEF In
  <2>. QED BY <2>1, <2>4, <2>5
<1>11. A \subseteq Leaves(t) /\ B \subseteq Leaves(u)
  BY DEF Leaves, IsProse
<1>12. Grounding(t, i) = Listed(Hashes(t), A) /\ Grounding(u, h[i]) = Listed(Hashes(u), B)
  BY DEF Grounding
<1>. HIDE DEF A, B
<1>13. Listed(Hashes(t), A) = Listed(Hashes(u), B)
  BY <1>10, <1>11, SameRootMatches, PartListed DEF Leafwise
<1>. QED BY <1>12, <1>13

\* A line that occurs once is where At says, and nowhere else.
LEMMA OnceAt ==
  ASSUME NEW t \in Texts, NEW l, Once(t, l)
  PROVE  /\ At(t, l) \in DOMAIN t /\ t[At(t, l)] = l
         /\ \A i \in DOMAIN t : t[i] = l => i = At(t, l)
<1>. DEFINE S == {i \in DOMAIN t : t[i] = l}
<1>1. IsFiniteSet(S)
  BY TextPositions DEF Positions
<1>2. \E i : S = {i}
  BY <1>1, FS_Singleton DEF Once
<1>. QED BY <1>2 DEF At

\* A block that occurs once in one of two texts with the same root has the same
\* section in both, where it is.
LEMMA SameSectionAt ==
  ASSUME NEW t \in Texts, NEW u \in Texts, Root(t) = Root(u), NEW l \in Lines, IsBlock(l), Once(u, l)
  PROVE  /\ At(t, l) \in DOMAIN t /\ t[At(t, l)] = l
         /\ Grounding(t, At(t, l)) = Grounding(u, At(u, l))
<1>1. IsLeaf(l) /\ At(u, l) \in DOMAIN u /\ u[At(u, l)] = l
  BY LineKinds, OnceAt
<1>2. PICK h : Leafwise(h, t, u)
  BY SameRootMatches
<1>3. \E i \in DOMAIN t : t[i] = l
  BY <1>1, SameBlock
<1>4. At(t, l) \in DOMAIN t /\ t[At(t, l)] = l
  BY <1>3 DEF At
<1>5. At(t, l) \in Leaves(t)
  BY <1>1, <1>4 DEF Leaves
<1>6. h[At(t, l)] \in DOMAIN u /\ u[h[At(t, l)]] = l
  <2>1. /\ h \in [Leaves(t) -> Leaves(u)]
        /\ \A i \in Leaves(t) : SameLine(t[i], u[h[i]])
    BY <1>2, LeafwiseLines
  <2>2. h[At(t, l)] \in DOMAIN u /\ SameLine(t[At(t, l)], u[h[At(t, l)]])
    BY <1>5, <2>1 DEF Leaves
  <2>. QED BY <1>4, <2>2 DEF SameLine, IsBlock
<1>7. h[At(t, l)] = At(u, l)
  BY <1>6, OnceAt
<1>. QED BY <1>2, <1>4, <1>5, <1>7, SameSection

-----------------------------------------------------------------------------
(* The blocks of a theory. *)

LEMMA BlocksOf ==
  ASSUME NEW ps, NEW f, NEW i
  PROVE  <<f, i>> \in Blocks(ps) <=>
           f \in DOMAIN ps /\ i \in DOMAIN ps[f].text /\ IsBlock(ps[f].text[i])
  BY DEF Blocks

\* The hash of a block that parses is its own.
LEMMA HashIsOwn ==
  ASSUME NEW l \in Lines, NEW m \in Lines, IsBlock(l), IsBlock(m), AstHash(l) = AstHash(m)
  PROVE  /\ Parses(l) <=> Parses(m)
         /\ Parses(l) => l = m
<1>1. l \in [kind : {"spl"}, logic : Logics] /\ m \in [kind : {"spl"}, logic : Logics]
  BY LineKinds
<1>2. Parses(l) <=> Parses(m)
  BY DEF AstHash, Parses
<1>3. Parses(l) => l.logic = m.logic
  BY DEF AstHash, Parses
<1>. QED BY <1>1, <1>2, <1>3

\* A theory that is valid for some pages has their rules: hashes and places are
\* all that its validity compares.
LEMMA ValidRules ==
  ASSUME NEW m \in Nat, NEW n \in Nat, NEW ps, NEW th, Parsed(ps, m), Parsed(th, n),
         TheoryValid(ps, th)
  PROVE  RulesOf(th) = RulesOf(ps)
<1>1. Blocks(ps) = Blocks(th)
  <2>1. DOMAIN SplHashes(ps) = Blocks(ps) /\ DOMAIN SplHashes(th) = Blocks(th)
    BY DEF SplHashes
  <2>. QED BY <2>1 DEF TheoryValid
<1>2. \A b \in Blocks(ps) : AstHash(Block(ps, b)) = AstHash(Block(th, b))
  BY <1>1 DEF TheoryValid, SplHashes
<1>3. /\ \A f \in DOMAIN ps : ps[f].text \in Texts
      /\ \A f \in DOMAIN th : th[f].text \in Texts
  BY ParsedEntry
<1>. DEFINE P(f) == {i \in DOMAIN ps[f].text : Parses(ps[f].text[i])}
            Q(f) == {i \in DOMAIN th[f].text : Parses(th[f].text[i])}
<1>4. ASSUME NEW f \in DOMAIN ps, NEW i \in P(f)
      PROVE  f \in DOMAIN th /\ i \in Q(f) /\ th[f].text[i] = ps[f].text[i]
  <2>1. IsBlock(ps[f].text[i])
    BY DEF Parses
  <2>2. <<f, i>> \in Blocks(ps) /\ <<f, i>> \in Blocks(th)
    BY <1>1, <2>1, BlocksOf
  <2>3. f \in DOMAIN th /\ i \in DOMAIN th[f].text /\ IsBlock(th[f].text[i])
    BY <2>2, BlocksOf
  <2>4. ps[f].text[i] \in Lines /\ th[f].text[i] \in Lines
    BY <1>3, <2>3, TextPositions
  <2>5. AstHash(ps[f].text[i]) = AstHash(th[f].text[i])
    BY <1>2, <2>2 DEF Block
  <2>6. Parses(ps[f].text[i])
    OBVIOUS
  <2>. QED BY <2>1, <2>3, <2>4, <2>5, <2>6, HashIsOwn
<1>5. ASSUME NEW f \in DOMAIN th, NEW i \in Q(f)
      PROVE  f \in DOMAIN ps /\ i \in P(f) /\ th[f].text[i] = ps[f].text[i]
  <2>1. IsBlock(th[f].text[i])
    BY DEF Parses
  <2>2. <<f, i>> \in Blocks(ps) /\ <<f, i>> \in Blocks(th)
    BY <1>1, <2>1, BlocksOf
  <2>3. f \in DOMAIN ps /\ i \in DOMAIN ps[f].text /\ IsBlock(ps[f].text[i])
    BY <2>2, BlocksOf
  <2>4. ps[f].text[i] \in Lines /\ th[f].text[i] \in Lines
    BY <1>3, <2>3, TextPositions
  <2>5. AstHash(ps[f].text[i]) = AstHash(th[f].text[i])
    BY <1>2, <2>2 DEF Block
  <2>6. Parses(th[f].text[i])
    OBVIOUS
  <2>. QED BY <2>1, <2>3, <2>4, <2>5, <2>6, HashIsOwn
<1>6. /\ \A f \in DOMAIN ps : Rules(ps[f].text) = Listed(ps[f].text, P(f))
      /\ \A f \in DOMAIN th : Rules(th[f].text) = Listed(th[f].text, Q(f))
  BY DEF Rules
<1>7. \A t : Listed(t, {}) = {}
  BY DEF Listed
<1>. HIDE DEF P, Q
<1>8. ASSUME NEW f \in DOMAIN ps, f \in DOMAIN th PROVE Rules(ps[f].text) = Rules(th[f].text)
  <2>1. P(f) = Q(f) /\ \A i \in P(f) : ps[f].text[i] = th[f].text[i]
    BY <1>4, <1>5, <1>8
  <2>2. Listed(ps[f].text, P(f)) = Listed(th[f].text, P(f))
    BY <2>1 DEF Listed
  <2>. QED BY <1>6, <1>8, <2>1, <2>2
<1>9. ASSUME NEW f \in DOMAIN ps, f \notin DOMAIN th PROVE Rules(ps[f].text) = {}
  <2>1. P(f) = {}
    BY <1>4, <1>9
  <2>. QED BY <1>6, <1>7, <2>1
<1>10. ASSUME NEW f \in DOMAIN th, f \notin DOMAIN ps PROVE Rules(th[f].text) = {}
  <2>1. Q(f) = {}
    BY <1>5, <1>10
  <2>. QED BY <1>6, <1>7, <2>1
<1>11. \A f \in Files : RulesOf(th)[f] = RulesOf(ps)[f]
  BY <1>8, <1>9, <1>10 DEF RulesOf
<1>. QED BY <1>11 DEF RulesOf

\* Pages with the same roots have the same rules.
LEMMA SameRootRules ==
  ASSUME NEW m \in Nat, NEW n \in Nat, NEW ps, NEW qs, Parsed(ps, m), Parsed(qs, n),
         DOMAIN ps = DOMAIN qs, \A f \in DOMAIN ps : Root(ps[f].text) = Root(qs[f].text)
  PROVE  RulesOf(ps) = RulesOf(qs)
<1>1. \A f \in DOMAIN ps : ps[f].text \in Texts /\ qs[f].text \in Texts
  BY ParsedEntry
<1>2. \A f \in DOMAIN ps : Rules(ps[f].text) = Rules(qs[f].text)
  BY <1>1, SameRules
<1>. QED BY <1>2 DEF RulesOf

\* The typed links on a file are those of its page.
LEMMA LinksOnFile ==
  ASSUME NEW ps, NEW f
  PROVE  /\ f \in DOMAIN ps => LinksOn(ps, f) = Links(ps[f].text)
         /\ f \notin DOMAIN ps => LinksOn(ps, f) = {}
<1>1. \A e : <<f, e>> \in EdgeFacts(ps) <=> f \in DOMAIN ps /\ e \in Links(ps[f].text)
  BY DEF EdgeFacts
<1>2. \A t : Links(t) \subseteq Edged
  BY DEF Links
<1>. QED BY <1>1, <1>2 DEF LinksOn

-----------------------------------------------------------------------------
(* What the commands hold.                                                 *)
(*                                                                         *)
(* Any two parses of a file with the same mtime have the same root, unless *)
(* the file was written, with that mtime, under a scan.  So what a merge   *)
(* takes from the index is what the scan read.                             *)

Held == {index.pages} \cup UNION {{cached[p], scan[p], pages[p]} : p \in Procs}
Agree(ps, qs) ==
  \A f \in DOMAIN ps \cap DOMAIN qs :
    ps[f].mtime = qs[f].mtime /\ <<f, ps[f].mtime>> \notin raced =>
      Root(ps[f].text) = Root(qs[f].text)
AgreeInv == \A ps, qs \in Held : Agree(ps, qs)

AfterMerge ==
  {"save", "write", "query", "checked", "save theory", "write theory", "answered"}

\* After the merge a command works on the files that it scanned, with
\* --no-cache as they are.
CurrentPages(p) ==
  /\ pc[p] = "scan" /\ NoCache(p) => cached[p] = NoPages
  /\ pc[p] \in AfterMerge =>
       /\ DOMAIN pages[p] = DOMAIN scan[p]
       /\ \A f \in Sound(p) : Root(pages[p][f].text) = Root(scan[p][f].text)
       /\ NoCache(p) => pages[p] = scan[p]
CurrentInv == \A p \in Procs : CurrentPages(p)

\* The theory that is cached, or about to be, has no typed links; a theory that
\* was used has the rules and the links of the pages.
TheoryOf(p) ==
  /\ pc[p] \in {"save theory", "write theory"} =>
       EdgeFacts(pages[p]) = {} /\ basis[p] = pages[p]
  /\ pc[p] = "answered" =>
       EdgeFacts(basis[p]) = EdgeFacts(pages[p]) /\ RulesOf(basis[p]) = RulesOf(pages[p])
TheoryInv == EdgeFacts(theory.pages) = {} /\ \A p \in Procs : TheoryOf(p)

LEMMA NoneAgree == ASSUME NEW ps PROVE Agree(NoPages, ps) /\ Agree(ps, NoPages)
  BY DEF Agree, NoPages

LEMMA HeldParsed ==
  ASSUME FollowInv, NEW ps \in Held
  PROVE  Parsed(ps, clock) /\ Follows(ps) /\ clock \in Nat
  BY DEF FollowInv, TypeInv, FilesType, CachesType, CacheFile, HeldType, HeldFollows, Held

\* What is held after a step was held before it, or is nothing, or is the parse
\* ns, that agrees with all that was held.
LEMMA AgreeKept ==
  ASSUME AgreeInv, raced \subseteq raced', NEW ns, \A ps \in Held : Agree(ns, ps),
         \A ps \in Held' : ps \in Held \cup {NoPages, ns}
  PROVE  AgreeInv'
<1>1. \A ps, qs : Agree(ps, qs) => Agree(qs, ps)
  BY DEF Agree
<1>2. Agree(ns, ns)
  BY DEF Agree
<1>3. ASSUME NEW ps \in Held', NEW qs \in Held' PROVE Agree(ps, qs)
  BY <1>1, <1>2, NoneAgree DEF AgreeInv
<1>4. \A ps, qs : Agree(ps, qs) => Agree(ps, qs)'
  BY DEF Agree
<1>. QED BY <1>3, <1>4 DEF AgreeInv

LEMMA AgreeInit == Init => AgreeInv
<1>. SUFFICES ASSUME Init PROVE AgreeInv
  OBVIOUS
<1>1. \A ps \in Held : ps = NoPages
  BY DEF Init, Held, Missing
<1>. QED BY <1>1, NoneAgree DEF AgreeInv

\* A scan reads what the file holds, or the write that it missed is recorded.
LEMMA StatAgree ==
  ASSUME FollowInv, AgreeInv, NEW p \in Procs, NEW f \in Files, StatFile(p, f)
  PROVE  AgreeInv'
<1>1. /\ scan'[p] = [g \in {f} \cup DOMAIN scan[p] |->
                       IF g = f THEN [text |-> read[p][f], mtime |-> mtime[f]] ELSE scan[p][g]]
      /\ UNCHANGED <<cached, pages, index, raced>>
      /\ \A q \in Procs \ {p} : scan'[q] = scan[q]
      /\ f \in DOMAIN read[p]
  BY DEF FollowInv, TypeInv, Shape, StatFile, cacheVars, vaultVars
<1>2. read[p][f] = text[f] \/ <<f, mtime[f]>> \in raced
  BY <1>1 DEF FollowInv, HeldFollows, ReadIsNow
<1>3. ASSUME NEW ps \in Held PROVE Agree(scan'[p], ps)
  <2>1. Follows(ps) /\ Agree(scan[p], ps)
    BY HeldParsed DEF AgreeInv, Held
  <2>2. ASSUME NEW g \in DOMAIN scan'[p] \cap DOMAIN ps,
               scan'[p][g].mtime = ps[g].mtime, <<g, scan'[p][g].mtime>> \notin raced
        PROVE  Root(scan'[p][g].text) = Root(ps[g].text)
    <3>1. CASE g = f
      BY <1>1, <1>2, <2>1, <2>2, <3>1 DEF Follows
    <3>2. CASE g # f
      BY <1>1, <2>1, <2>2, <3>2 DEF Agree
    <3>. QED BY <3>1, <3>2
  <2>. QED BY <2>2 DEF Agree
<1>4. \A ps \in Held' : ps \in Held \cup {NoPages, scan'[p]}
  BY <1>1 DEF Held
<1>. QED BY <1>1, <1>3, <1>4, AgreeKept

\* A merged page is a page of the scan, or has the root of one, or is a page of
\* the index with the mtime of one.
LEMMA MergeAgree ==
  ASSUME FollowInv, AgreeInv, NEW p \in Procs, Merge(p)
  PROVE  AgreeInv'
<1>1. /\ pages'[p] = Merged(cached[p], scan[p]) /\ cached'[p] = NoPages
      /\ UNCHANGED <<scan, index, raced>>
      /\ \A q \in Procs \ {p} : pages'[q] = pages[q] /\ cached'[q] = cached[q]
  BY DEF FollowInv, TypeInv, Shape, Merge, cacheVars, vaultVars
<1>2. cached[p] \in Held /\ scan[p] \in Held
  BY DEF Held
<1>3. clock \in Nat /\ Parsed(cached[p], clock) /\ Parsed(scan[p], clock)
  BY <1>2, HeldParsed
<1>4. ASSUME NEW ps \in Held PROVE Agree(pages'[p], ps)
  <2>1. Agree(cached[p], ps) /\ Agree(scan[p], ps)
    BY <1>2 DEF AgreeInv
  <2>2. DOMAIN Merged(cached[p], scan[p]) = DOMAIN scan[p]
    BY DEF Merged
  <2>3. ASSUME NEW f \in DOMAIN scan[p], f \in DOMAIN ps,
               Merged(cached[p], scan[p])[f].mtime = ps[f].mtime,
               <<f, Merged(cached[p], scan[p])[f].mtime>> \notin raced
        PROVE  Root(Merged(cached[p], scan[p])[f].text) = Root(ps[f].text)
    <3>1. scan[p][f].mtime = ps[f].mtime /\ <<f, scan[p][f].mtime>> \notin raced
      BY <1>3, <2>3, MergedEntry
    <3>2. Root(scan[p][f].text) = Root(ps[f].text)
      BY <2>1, <2>3, <3>1 DEF Agree
    <3>3. f \in DOMAIN cached[p] /\ cached[p][f].mtime = scan[p][f].mtime =>
            Root(cached[p][f].text) = Root(ps[f].text)
      BY <2>1, <2>3, <3>1 DEF Agree
    <3>. QED BY <1>3, <3>2, <3>3, MergedEntry
  <2>. QED BY <1>1, <2>2, <2>3 DEF Agree
<1>5. \A ps \in Held' : ps \in Held \cup {NoPages, pages'[p]}
  BY <1>1 DEF Held
<1>. QED BY <1>1, <1>4, <1>5, AgreeKept

\* The steps that bring no new parse.
LEMMA OldAgree ==
  ASSUME AgreeInv, raced \subseteq raced', \A ps \in Held' : ps \in Held \cup {NoPages}
  PROVE  AgreeInv'
  BY AgreeKept, NoneAgree

LEMMA EndAgree ==
  ASSUME FollowInv, AgreeInv, NEW p \in Procs, End(p)
  PROVE  AgreeInv'
<1>1. /\ cached'[p] = NoPages /\ scan'[p] = NoPages /\ pages'[p] = NoPages
      /\ \A q \in Procs \ {p} : UNCHANGED <<cached[q], scan[q], pages[q]>>
      /\ UNCHANGED <<index, raced>>
  BY DEF FollowInv, TypeInv, Shape, End, cacheVars, vaultVars
<1>2. \A ps \in Held' : ps \in Held \cup {NoPages}
  BY <1>1 DEF Held
<1>. QED BY <1>1, <1>2, OldAgree

LEMMA LoadAgree ==
  ASSUME FollowInv, AgreeInv, NEW p \in Procs, Load(p)
  PROVE  AgreeInv'
<1>1. /\ cached'[p] \in {NoPages, index.pages} /\ UNCHANGED <<scan, pages, index, raced>>
      /\ \A q \in Procs \ {p} : cached'[q] = cached[q]
  BY DEF FollowInv, TypeInv, Shape, Load, cacheVars, vaultVars
<1>2. \A ps \in Held' : ps \in Held \cup {NoPages}
  BY <1>1 DEF Held
<1>. QED BY <1>1, <1>2, OldAgree

LEMMA SaveAgree ==
  ASSUME FollowInv, AgreeInv, NEW p \in Procs, UNCHANGED <<raced, cached, scan, pages>>,
         index' \in {index, Empty} \cup Written(index, pages[p])
  PROVE  AgreeInv'
<1>1. pages[p] \in Held /\ clock \in Nat
  BY DEF FollowInv, TypeInv, FilesType, Held
<1>2. index'.pages \in {index.pages, NoPages, pages[p]}
  BY <1>1, HeldParsed, WrittenType DEF Empty
<1>3. \A ps \in Held' : ps \in Held \cup {NoPages}
  BY <1>1, <1>2 DEF Held
<1>. QED BY <1>3, OldAgree

LEMMA AgreeStep == FollowInv /\ AgreeInv /\ [Next]_vars => AgreeInv'
<1>. SUFFICES ASSUME FollowInv, AgreeInv, [Next]_vars PROVE AgreeInv'
  OBVIOUS
<1>1. ASSUME UNCHANGED <<index, cached, scan, pages>>, raced \subseteq raced' PROVE AgreeInv'
  <2>1. Held' = Held
    BY <1>1 DEF Held
  <2>. QED BY <1>1, <2>1, OldAgree
<1>2. ASSUME NEW f \in Files, Write(f) \/ Delete(f) PROVE AgreeInv'
  BY <1>1, <1>2 DEF Write, Delete, cacheVars, procVars
<1>3. CASE Wipe
  <2>1. \A ps \in Held' : ps \in Held \cup {NoPages}
    BY <1>3 DEF Wipe, Held, Missing, procVars
  <2>. QED BY <1>3, <2>1, OldAgree DEF Wipe, vaultVars
<1>4. ASSUME NEW p \in Procs, NEW c \in Commands, Start(p, c) PROVE AgreeInv'
  BY <1>1, <1>4 DEF Start, cacheVars, vaultVars
<1>5. ASSUME NEW p \in Procs, Scanning(p) PROVE AgreeInv'
  <2>1. ASSUME SaveTruncate(p) \/ SaveWrite(p) \/ SaveFails(p) PROVE AgreeInv'
    BY <2>1, SaveAgree DEF SaveTruncate, SaveWrite, SaveFails, cacheVars, vaultVars
  <2>2. ASSUME NEW f \in Files, ReadFile(p, f) PROVE AgreeInv'
    BY <1>1, <2>2 DEF ReadFile, cacheVars, vaultVars
  <2>. QED BY <1>5, <2>1, <2>2, LoadAgree, EndAgree, StatAgree, MergeAgree
           DEF Scanning, LoadFails, ScanFails
<1>6. ASSUME NEW p \in Procs, Querying(p) PROVE AgreeInv'
  BY <1>1, <1>6
     DEF Querying, Check, Reuse, Build, TheoryTruncate, TheoryWrite, TheoryFails, cacheVars, vaultVars
<1>7. ASSUME NEW p \in Procs, Done(p) \/ Kill(p) PROVE AgreeInv'
  BY <1>7, EndAgree DEF Done, Kill
<1>8. CASE UNCHANGED vars
  BY <1>1, <1>8 DEF vars, vaultVars, cacheVars, procVars
<1>. QED BY <1>2, <1>3, <1>4, <1>5, <1>6, <1>7, <1>8 DEF Next

\* The steps in which a process does not merge.
LEMMA CurrentKept ==
  ASSUME CurrentInv, raced \subseteq raced', NEW p \in Procs,
         \/ pc'[p] \notin AfterMerge
         \/ pc[p] \in AfterMerge /\ UNCHANGED <<cmd[p], scan[p], pages[p]>>,
         pc'[p] = "scan" => UNCHANGED <<pc[p], cmd[p], cached[p]>>,
         \A q \in Procs \ {p} : UNCHANGED <<pc[q], cmd[q], cached[q], scan[q], pages[q]>>
  PROVE  CurrentInv'
<1>1. ASSUME NEW q \in Procs, pc'[q] \in AfterMerge
      PROVE  /\ pc[q] \in AfterMerge /\ UNCHANGED <<cmd[q], scan[q], pages[q]>>
             /\ CurrentPages(q)
  BY <1>1 DEF CurrentInv
<1>2. ASSUME NEW q \in Procs, pc'[q] \in AfterMerge PROVE Sound(q)' \subseteq Sound(q)
  BY <1>1, <1>2 DEF Sound
<1>3. ASSUME NEW q \in Procs, pc'[q] = "scan"
      PROVE  UNCHANGED <<pc[q], cmd[q], cached[q]>> /\ CurrentPages(q)
  BY <1>3 DEF CurrentInv
<1>4. \A q \in Procs : pc'[q] \in AfterMerge => pc'[q] # "scan"
  BY DEF AfterMerge
<1>5. ASSUME NEW q \in Procs PROVE CurrentPages(q)'
  BY <1>1, <1>2, <1>3, <1>4 DEF CurrentPages, NoCache
<1>. QED BY <1>5 DEF CurrentInv

LEMMA MergeCurrent ==
  ASSUME FollowInv, AgreeInv, CurrentInv, NEW p \in Procs, Merge(p)
  PROVE  CurrentInv'
<1>1. /\ pages'[p] = Merged(cached[p], scan[p]) /\ UNCHANGED <<scan, raced>>
      /\ \A q \in Procs \ {p} : UNCHANGED <<pages[q], pc[q], cached[q]>>
      /\ cmd' = cmd /\ pc[p] = "scan" /\ pc'[p] \in {"query", "save"}
  BY DEF FollowInv, TypeInv, ProcsType, Shape, Merge, Goto, vaultVars
<1>2. cached[p] \in Held /\ scan[p] \in Held
  BY DEF Held
<1>3. /\ clock \in Nat /\ Parsed(cached[p], clock) /\ Parsed(scan[p], clock)
      /\ Agree(cached[p], scan[p])
  BY <1>2, HeldParsed DEF AgreeInv
<1>4. DOMAIN pages'[p] = DOMAIN scan[p]
  BY <1>1 DEF Merged
<1>5. ASSUME NEW f \in DOMAIN scan[p], <<f, scan[p][f].mtime>> \notin raced
      PROVE  Root(pages'[p][f].text) = Root(scan[p][f].text)
  <2>1. f \in DOMAIN cached[p] /\ cached[p][f].mtime = scan[p][f].mtime =>
          Root(cached[p][f].text) = Root(scan[p][f].text)
    BY <1>3, <1>5 DEF Agree
  <2>. QED BY <1>1, <1>3, <2>1, MergedEntry
<1>6. ASSUME NoCache(p) PROVE pages'[p] = scan[p]
  <2>1. cached[p] = NoPages
    BY <1>1, <1>6 DEF CurrentInv, CurrentPages
  <2>2. DOMAIN NoPages = {} /\ scan[p] = [f \in DOMAIN scan[p] |-> scan[p][f]]
    BY <1>3 DEF NoPages, Parsed
  <2>. QED BY <1>1, <2>1, <2>2 DEF Merged
<1>7. CurrentPages(p)'
  BY <1>1, <1>4, <1>5, <1>6 DEF CurrentPages, Sound, NoCache
<1>8. ASSUME NEW q \in Procs, q # p PROVE CurrentPages(q)'
  BY <1>1, <1>8 DEF CurrentInv, CurrentPages, Sound, NoCache
<1>. QED BY <1>7, <1>8 DEF CurrentInv

LEMMA CurrentInit == Init => CurrentInv
  BY DEF Init, CurrentInv, CurrentPages, AfterMerge

LEMMA CurrentStep == FollowInv /\ AgreeInv /\ CurrentInv /\ [Next]_vars => CurrentInv'
<1>. SUFFICES ASSUME FollowInv, AgreeInv, CurrentInv, [Next]_vars PROVE CurrentInv'
  OBVIOUS
<1>0. pc = [q \in Procs |-> pc[q]] /\ cmd = [q \in Procs |-> cmd[q]] /\ Shape
  BY DEF FollowInv, TypeInv, ProcsType
<1>1. ASSUME UNCHANGED <<pc, cmd, cached, scan, pages>>, raced \subseteq raced' PROVE CurrentInv'
  BY <1>1 DEF CurrentInv, CurrentPages, Sound, NoCache
<1>2. ASSUME NEW p \in Procs, NEW l, Goto(p, l), UNCHANGED <<raced, cmd, cached, scan, pages>>,
             l # "scan", pc[p] \in AfterMerge
      PROVE  CurrentInv'
  <2>1. pc'[p] = l /\ \A q \in Procs \ {p} : pc'[q] = pc[q]
    BY <1>0, <1>2 DEF Goto
  <2>. QED BY <1>2, <2>1, CurrentKept
<1>3. ASSUME NEW p \in Procs, End(p) PROVE CurrentInv'
  <2>1. /\ pc'[p] = "idle" /\ raced' = raced
        /\ \A q \in Procs \ {p} : UNCHANGED <<pc[q], cmd[q], cached[q], scan[q], pages[q]>>
    BY <1>0, <1>3 DEF End, Goto, Shape, vaultVars
  <2>. QED BY <2>1, CurrentKept DEF AfterMerge
<1>4. ASSUME NEW f \in Files, Write(f) \/ Delete(f) PROVE CurrentInv'
  BY <1>1, <1>4 DEF Write, Delete, procVars
<1>5. CASE Wipe
  BY <1>1, <1>5 DEF Wipe, vaultVars, procVars
<1>6. ASSUME NEW p \in Procs, NEW c \in Commands, Start(p, c) PROVE CurrentInv'
  <2>1. /\ pc'[p] = "load" /\ raced' = raced
        /\ \A q \in Procs \ {p} : UNCHANGED <<pc[q], cmd[q], cached[q], scan[q], pages[q]>>
    BY <1>0, <1>6 DEF Start, Goto, vaultVars
  <2>. QED BY <2>1, CurrentKept DEF AfterMerge
<1>7. ASSUME NEW p \in Procs, Scanning(p) PROVE CurrentInv'
  <2>1. ASSUME Load(p) PROVE CurrentInv'
    <3>1. /\ pc'[p] = "scan" /\ cmd' = cmd /\ UNCHANGED <<raced, scan, pages>>
          /\ NoCache(p) => cached'[p] = NoPages
          /\ \A q \in Procs \ {p} : UNCHANGED <<pc[q], cached[q]>>
      BY <1>0, <2>1 DEF Load, Goto, Shape, vaultVars
    <3>2. CurrentPages(p)'
      BY <3>1 DEF CurrentPages, NoCache, AfterMerge
    <3>3. ASSUME NEW q \in Procs, q # p PROVE CurrentPages(q)'
      BY <3>1, <3>3 DEF CurrentInv, CurrentPages, Sound, NoCache
    <3>. QED BY <3>2, <3>3 DEF CurrentInv
  <2>2. ASSUME NEW f \in Files, ReadFile(p, f) PROVE CurrentInv'
    BY <1>1, <2>2 DEF ReadFile, vaultVars
  <2>3. ASSUME NEW f \in Files, StatFile(p, f) PROVE CurrentInv'
    <3>1. /\ pc'[p] = "scan" /\ UNCHANGED <<raced, pc, cmd, cached>>
          /\ \A q \in Procs \ {p} : UNCHANGED <<scan[q], pages[q]>>
      BY <1>0, <2>3 DEF StatFile, Shape, vaultVars
    <3>. QED BY <3>1, CurrentKept DEF AfterMerge
  <2>4. ASSUME SaveTruncate(p) \/ SaveWrite(p) \/ SaveFails(p) PROVE CurrentInv'
    <3>1. /\ pc[p] \in AfterMerge /\ UNCHANGED <<raced, cmd, cached, scan, pages>>
          /\ \E l : l # "scan" /\ Goto(p, l)
      BY <2>4 DEF SaveTruncate, SaveWrite, SaveFails, vaultVars, AfterMerge
    <3>. QED BY <1>2, <3>1
  <2>. QED BY <1>3, <1>7, <2>1, <2>2, <2>3, <2>4, MergeCurrent DEF Scanning, LoadFails, ScanFails
<1>8. ASSUME NEW p \in Procs, Querying(p) PROVE CurrentInv'
  <2>1. /\ pc[p] \in AfterMerge /\ UNCHANGED <<raced, cmd, cached, scan, pages>>
        /\ \E l : l # "scan" /\ Goto(p, l)
    <3>1. CASE Check(p) \/ Reuse(p)
      BY <3>1 DEF Check, Reuse, vaultVars, AfterMerge
    <3>2. CASE Build(p)
      BY <3>2 DEF Build, vaultVars, AfterMerge
    <3>3. CASE TheoryTruncate(p) \/ TheoryWrite(p) \/ TheoryFails(p)
      BY <3>3 DEF TheoryTruncate, TheoryWrite, TheoryFails, vaultVars, AfterMerge
    <3>. QED BY <1>8, <3>1, <3>2, <3>3 DEF Querying
  <2>. QED BY <1>2, <2>1
<1>9. ASSUME NEW p \in Procs, Done(p) \/ Kill(p) PROVE CurrentInv'
  BY <1>3, <1>9 DEF Done, Kill
<1>10. CASE UNCHANGED vars
  BY <1>1, <1>10 DEF vars, vaultVars, procVars
<1>. QED BY <1>4, <1>5, <1>6, <1>7, <1>8, <1>9, <1>10 DEF Next

-----------------------------------------------------------------------------
(* The theory. *)

LEMMA TheoryInit == Init => TheoryInv
<1>1. EdgeFacts(NoPages) = {}
  BY DEF EdgeFacts, NoPages
<1>. QED BY <1>1 DEF Init, TheoryInv, TheoryOf, Missing

\* A step of a process other than those about a theory.
LEMMA TheoryKept ==
  ASSUME TheoryInv, theory' = theory, NEW p \in Procs,
         pc'[p] \notin {"save theory", "write theory", "answered"},
         \A q \in Procs \ {p} : UNCHANGED <<pc[q], pages[q], basis[q]>>
  PROVE  TheoryInv'
<1>1. TheoryOf(p)'
  BY DEF TheoryOf
<1>2. \A q \in Procs : q # p => TheoryOf(q)'
  BY DEF TheoryInv, TheoryOf
<1>. QED BY <1>1, <1>2 DEF TheoryInv

LEMMA QueryTheory ==
  ASSUME FollowInv, TheoryInv, NEW p \in Procs, Querying(p)
  PROVE  TheoryInv'
<1>0. pc = [q \in Procs |-> pc[q]] /\ Shape /\ p \in DOMAIN pc /\ p \in DOMAIN basis
  BY DEF FollowInv, TypeInv, ProcsType, Shape
<1>1. ASSUME \A q \in Procs \ {p} : UNCHANGED <<pc[q], pages[q], basis[q]>>
      PROVE  \A q \in Procs : q # p => TheoryOf(q)'
  BY <1>1 DEF TheoryInv, TheoryOf
<1>2. /\ clock \in Nat /\ Parsed(theory.pages, clock) /\ Parsed(pages[p], clock)
      /\ EdgeFacts(theory.pages) = {} /\ EdgeFacts(NoPages) = {}
  BY DEF FollowInv, TypeInv, FilesType, CachesType, CacheFile, HeldType, TheoryInv, EdgeFacts, NoPages
<1>3. ASSUME Check(p) PROVE TheoryInv'
  <2>1. /\ pc'[p] = "checked" /\ theory' = theory
        /\ \A q \in Procs \ {p} : UNCHANGED <<pc[q], pages[q], basis[q]>>
    BY <1>0, <1>3 DEF Check, Goto, Shape, cacheVars
  <2>. QED BY <2>1, TheoryKept
<1>4. ASSUME Reuse(p) PROVE TheoryInv'
  <2>1. /\ pc'[p] = "answered" /\ theory' = theory /\ pages' = pages /\ basis'[p] = theory.pages
        /\ \A q \in Procs \ {p} : UNCHANGED <<pc[q], pages[q], basis[q]>>
    BY <1>0, <1>4 DEF Reuse, Goto, Shape, cacheVars
  <2>2. EdgeFacts(pages[p]) = {} /\ RulesOf(theory.pages) = RulesOf(pages[p])
    BY <1>2, <1>4, ValidRules DEF Reuse, TheoryCached
  <2>3. TheoryOf(p)'
    BY <1>2, <2>1, <2>2 DEF TheoryOf
  <2>. QED BY <1>1, <1>2, <2>1, <2>3 DEF TheoryInv
<1>5. ASSUME Build(p) PROVE TheoryInv'
  <2>1. /\ pc'[p] = (IF TheoryCached(p) THEN "save theory" ELSE "answered")
        /\ theory' = theory /\ pages' = pages /\ basis'[p] = pages[p]
        /\ \A q \in Procs \ {p} : UNCHANGED <<pc[q], pages[q], basis[q]>>
    BY <1>0, <1>5 DEF Build, Goto, Shape, cacheVars
  <2>2. TheoryOf(p)'
    BY <2>1 DEF TheoryOf, TheoryCached
  <2>. QED BY <1>1, <1>2, <2>1, <2>2 DEF TheoryInv
<1>6. ASSUME TheoryTruncate(p) \/ TheoryWrite(p) \/ TheoryFails(p) PROVE TheoryInv'
  <2>1. /\ pc'[p] \in {"write theory", "answered"} /\ pages' = pages /\ basis' = basis
        /\ pc[p] \in {"save theory", "write theory"}
        /\ \A q \in Procs \ {p} : UNCHANGED <<pc[q], pages[q], basis[q]>>
    BY <1>0, <1>6 DEF TheoryTruncate, TheoryWrite, TheoryFails, Goto
  <2>2. EdgeFacts(pages[p]) = {} /\ basis[p] = pages[p]
    BY <2>1 DEF TheoryInv, TheoryOf
  <2>3. TheoryOf(p)'
    BY <2>1, <2>2 DEF TheoryOf
  <2>4. theory' \in {theory, Empty} \cup Written(theory, pages[p])
    BY <1>6 DEF TheoryTruncate, TheoryWrite, TheoryFails, cacheVars
  <2>5. theory'.pages \in {theory.pages, NoPages, pages[p]}
    BY <1>2, <2>4, WrittenType DEF Empty
  <2>6. EdgeFacts(theory'.pages) = {}
    BY <1>2, <2>2, <2>5
  <2>7. EdgeFacts(theory.pages)' = {}
    BY <2>6 DEF EdgeFacts
  <2>. QED BY <1>1, <2>1, <2>3, <2>7 DEF TheoryInv
<1>. QED BY <1>3, <1>4, <1>5, <1>6 DEF Querying

LEMMA TheoryStep == FollowInv /\ TheoryInv /\ [Next]_vars => TheoryInv'
<1>. SUFFICES ASSUME FollowInv, TheoryInv, [Next]_vars PROVE TheoryInv'
  OBVIOUS
<1>0. pc = [q \in Procs |-> pc[q]] /\ Shape
  BY DEF FollowInv, TypeInv, ProcsType
<1>1. ASSUME UNCHANGED <<theory, pc, pages, basis>> PROVE TheoryInv'
  BY <1>1 DEF TheoryInv, TheoryOf
<1>2. ASSUME NEW p \in Procs, NEW l, Goto(p, l), UNCHANGED <<theory, pages, basis>>,
             l \notin {"save theory", "write theory", "answered"}
      PROVE  TheoryInv'
  <2>1. pc'[p] = l /\ \A q \in Procs \ {p} : pc'[q] = pc[q]
    BY <1>0, <1>2 DEF Goto
  <2>. QED BY <1>2, <2>1, TheoryKept
<1>3. ASSUME NEW p \in Procs, End(p) PROVE TheoryInv'
  <2>1. /\ pc'[p] = "idle" /\ theory' = theory
        /\ \A q \in Procs \ {p} : UNCHANGED <<pc[q], pages[q], basis[q]>>
    BY <1>0, <1>3 DEF End, Goto, Shape, cacheVars
  <2>. QED BY <2>1, TheoryKept
<1>4. ASSUME NEW f \in Files, Write(f) \/ Delete(f) PROVE TheoryInv'
  BY <1>1, <1>4 DEF Write, Delete, cacheVars, procVars
<1>5. CASE Wipe
  <2>1. theory'.pages = NoPages /\ UNCHANGED <<pc, pages, basis>>
    BY <1>5 DEF Wipe, Missing, procVars
  <2>2. EdgeFacts(theory.pages)' = {}
    BY <2>1 DEF EdgeFacts, NoPages
  <2>3. \A p \in Procs : TheoryOf(p)'
    BY <2>1 DEF TheoryInv, TheoryOf
  <2>. QED BY <2>2, <2>3 DEF TheoryInv
<1>6. ASSUME NEW p \in Procs, NEW c \in Commands, Start(p, c) PROVE TheoryInv'
  BY <1>2, <1>6 DEF Start, cacheVars
<1>7. ASSUME NEW p \in Procs, Scanning(p) PROVE TheoryInv'
  <2>1. ASSUME Load(p) PROVE TheoryInv'
    BY <1>2, <2>1 DEF Load, cacheVars
  <2>2. ASSUME NEW f \in Files, ReadFile(p, f) \/ StatFile(p, f) PROVE TheoryInv'
    BY <1>1, <2>2 DEF ReadFile, StatFile, cacheVars
  <2>3. ASSUME Merge(p) PROVE TheoryInv'
    <3>1. /\ pc'[p] \in {"query", "save"} /\ theory' = theory
          /\ \A q \in Procs \ {p} : UNCHANGED <<pc[q], pages[q], basis[q]>>
      BY <1>0, <2>3 DEF Merge, Goto, Shape, cacheVars
    <3>. QED BY <3>1, TheoryKept
  <2>4. ASSUME SaveTruncate(p) \/ SaveWrite(p) \/ SaveFails(p) PROVE TheoryInv'
    <3>1. UNCHANGED <<theory, pages, basis>> /\ (Goto(p, "write") \/ Goto(p, "query"))
      BY <2>4 DEF SaveTruncate, SaveWrite, SaveFails, cacheVars
    <3>. QED BY <1>2, <3>1
  <2>. QED BY <1>3, <1>7, <2>1, <2>2, <2>3, <2>4 DEF Scanning, LoadFails, ScanFails
<1>8. ASSUME NEW p \in Procs, Querying(p) PROVE TheoryInv'
  BY <1>8, QueryTheory
<1>9. ASSUME NEW p \in Procs, Done(p) \/ Kill(p) PROVE TheoryInv'
  BY <1>3, <1>9 DEF Done, Kill
<1>10. CASE UNCHANGED vars
  BY <1>1, <1>10 DEF vars, cacheVars, procVars
<1>. QED BY <1>4, <1>5, <1>6, <1>7, <1>8, <1>9, <1>10 DEF Next

-----------------------------------------------------------------------------
(* What a command answers. *)

CommandInv == FollowInv /\ AgreeInv /\ CurrentInv /\ TheoryInv

LEMMA CommandInvHolds == Spec => []CommandInv
<1>1. Init => CommandInv
  BY FollowInit, AgreeInit, CurrentInit, TheoryInit DEF CommandInv
<1>2. CommandInv /\ [Next]_vars => CommandInv'
  BY FollowStep, AgreeStep, CurrentStep, TheoryStep DEF CommandInv
<1>. QED BY <1>1, <1>2, PTL DEF Spec

\* What a command has of the files, once it has merged them.
LEMMA CommandPages ==
  ASSUME CommandInv, NEW p \in Procs, pc[p] \in AfterMerge
  PROVE  /\ clock \in Nat
         /\ Parsed(pages[p], clock) /\ Parsed(scan[p], clock) /\ Parsed(basis[p], clock)
         /\ DOMAIN pages[p] = DOMAIN scan[p]
         /\ \A f \in Sound(p) : Root(pages[p][f].text) = Root(scan[p][f].text)
         /\ NoCache(p) => pages[p] = scan[p]
  BY DEF CommandInv, FollowInv, TypeInv, FilesType, HeldType, CurrentInv, CurrentPages

\* A command that is not raced by a writer reasons with the rules of the files
\* that it read, and with the typed links of texts that have their roots,
\* whatever the two caches held and whoever wrote them; with --no-cache the
\* links are those of the files (ReasonIsCurrent).
THEOREM ReasonFollowsFiles == Spec => []ReasonIsCurrent
<1>1. CommandInv => ReasonIsCurrent
  <2>. SUFFICES ASSUME CommandInv, NEW p \in Procs, pc[p] = "answered",
                       Sound(p) = DOMAIN scan[p]
                PROVE  /\ RulesOf(basis[p]) = RulesOf(scan[p])
                       /\ \A f \in DOMAIN scan[p] :
                            \E t \in Texts : /\ Root(t) = Root(scan[p][f].text)
                                            /\ LinksOn(basis[p], f) = Links(t)
                       /\ \A f \in Files \ DOMAIN scan[p] : LinksOn(basis[p], f) = {}
                       /\ NoCache(p) => EdgeFacts(basis[p]) = EdgeFacts(scan[p])
    BY DEF ReasonIsCurrent
  <2>1. /\ clock \in Nat /\ Parsed(pages[p], clock) /\ Parsed(scan[p], clock)
        /\ DOMAIN pages[p] = DOMAIN scan[p]
        /\ \A f \in DOMAIN scan[p] : Root(pages[p][f].text) = Root(scan[p][f].text)
        /\ NoCache(p) => pages[p] = scan[p]
    BY CommandPages DEF AfterMerge
  <2>2. RulesOf(pages[p]) = RulesOf(scan[p])
    BY <2>1, SameRootRules
  <2>3. EdgeFacts(basis[p]) = EdgeFacts(pages[p]) /\ RulesOf(basis[p]) = RulesOf(pages[p])
    BY DEF CommandInv, TheoryInv, TheoryOf
  <2>4. \A f : LinksOn(basis[p], f) = LinksOn(pages[p], f)
    BY <2>3 DEF LinksOn
  <2>5. ASSUME NEW f \in DOMAIN scan[p]
        PROVE  \E t \in Texts : Root(t) = Root(scan[p][f].text) /\ LinksOn(basis[p], f) = Links(t)
    <3>1. pages[p][f].text \in Texts
      BY <2>1, ParsedEntry
    <3>2. LinksOn(basis[p], f) = Links(pages[p][f].text)
      BY <2>1, <2>4, LinksOnFile
    <3>. QED BY <2>1, <3>1, <3>2
  <2>6. \A f \in Files \ DOMAIN scan[p] : LinksOn(basis[p], f) = {}
    BY <2>1, <2>4, LinksOnFile
  <2>. QED BY <2>1, <2>2, <2>3, <2>5, <2>6
<1>. QED BY <1>1, CommandInvHolds, PTL

\* A block that a drift check can follow, in the pages of the check and in the
\* file.
LEMMA FollowedBlock ==
  ASSUME CommandInv, NEW p \in Procs, pc[p] = "checked", NEW f, NEW l, <<f, l>> \in Checked(p)
  PROVE  LET t == pages[p][f].text
             u == basis[p][f].text
         IN  /\ f \in DOMAIN pages[p] /\ f \in DOMAIN basis[p]
             /\ u \in Texts /\ l \in Lines /\ Parses(l) /\ Once(u, l)
             /\ At(t, l) \in DOMAIN t /\ t[At(t, l)] = l
             /\ Grounding(t, At(t, l)) = Grounding(scan[p][f].text, At(scan[p][f].text, l))
<1>1. f \in Sound(p) /\ f \in DOMAIN basis[p] /\ l \in Followed(p, f)
  BY DEF Checked
<1>2. /\ l \in Lines /\ Parses(l) /\ IsBlock(l)
      /\ Once(basis[p][f].text, l) /\ Once(scan[p][f].text, l)
  BY <1>1 DEF Followed, Parses
<1>3. f \in DOMAIN scan[p] /\ f \in DOMAIN pages[p]
  BY <1>1, CommandPages DEF Sound, AfterMerge
<1>4. pages[p][f].text \in Texts /\ scan[p][f].text \in Texts /\ basis[p][f].text \in Texts
  BY <1>1, <1>3, CommandPages, ParsedEntry DEF AfterMerge
<1>5. Root(pages[p][f].text) = Root(scan[p][f].text)
  BY <1>1, CommandPages DEF AfterMerge
<1>. QED BY <1>1, <1>2, <1>3, <1>4, <1>5, SameSectionAt

\* A drift check reports no block whose section is the one that the theory was
\* built with: there is no false alarm (DriftIsReal).
THEOREM NoFalseAlarm == Spec => []DriftIsReal
<1>1. CommandInv => DriftIsReal
  <2>. SUFFICES ASSUME CommandInv, NEW p \in Procs, pc[p] = "checked",
                       NEW b \in Checked(p), Reported(p, b[1], b[2])
                PROVE  Changed(p, b[1], b[2])
    BY DEF DriftIsReal
  <2>. DEFINE f == b[1]
              l == b[2]
              t == pages[p][f].text
              u == basis[p][f].text
              i == At(t, l)
  <2>1. <<f, l>> \in Checked(p)
    BY DEF Checked
  <2>2. /\ f \in DOMAIN pages[p] /\ f \in DOMAIN basis[p]
        /\ u \in Texts /\ l \in Lines /\ Parses(l) /\ Once(u, l)
        /\ i \in DOMAIN t /\ t[i] = l
        /\ Grounding(t, i) = Grounding(scan[p][f].text, At(scan[p][f].text, l))
    BY <2>1, FollowedBlock
  <2>3. <<f, i>> \in SectionDrift(pages[p], basis[p])
    BY DEF Reported
  <2>4. /\ <<f, i>> \in Blocks(basis[p])
        /\ Grounding(t, i) # Grounding(u, i)
        /\ AstHash(t[i]) = AstHash(u[i])
    BY <2>3 DEF SectionDrift, Section, Block
  <2>5. i \in DOMAIN u /\ IsBlock(u[i])
    BY <2>4, BlocksOf
  <2>. HIDE DEF f, l, t, u, i
  <2>6. u[i] = l
    BY <2>2, <2>4, <2>5, HashIsOwn, TextPositions DEF Parses
  <2>7. i = At(u, l)
    BY <2>2, <2>5, <2>6, OnceAt
  <2>8. Grounding(u, At(u, l)) # Grounding(scan[p][f].text, At(scan[p][f].text, l))
    BY <2>2, <2>4, <2>7
  <2>. QED BY <2>8 DEF Changed, f, l, u
<1>. QED BY <1>1, CommandInvHolds, PTL

\* A drift check reports every block whose section is not the one that the
\* theory was built with, if the block is still on its line (DriftIsReported).
THEOREM NoDriftIsMissed == Spec => []DriftIsReported
<1>1. CommandInv => DriftIsReported
  <2>. SUFFICES ASSUME CommandInv, NEW p \in Procs, pc[p] = "checked",
                       NEW b \in Checked(p), Changed(p, b[1], b[2]),
                       At(basis[p][b[1]].text, b[2]) = At(pages[p][b[1]].text, b[2])
                PROVE  Reported(p, b[1], b[2])
    BY DEF DriftIsReported
  <2>. DEFINE f == b[1]
              l == b[2]
              t == pages[p][f].text
              u == basis[p][f].text
              i == At(t, l)
  <2>1. <<f, l>> \in Checked(p)
    BY DEF Checked
  <2>2. /\ f \in DOMAIN pages[p] /\ f \in DOMAIN basis[p]
        /\ u \in Texts /\ l \in Lines /\ Parses(l) /\ Once(u, l)
        /\ i \in DOMAIN t /\ t[i] = l
        /\ Grounding(t, i) = Grounding(scan[p][f].text, At(scan[p][f].text, l))
    BY <2>1, FollowedBlock
  <2>3. At(u, l) = i /\ Grounding(u, At(u, l)) # Grounding(scan[p][f].text, At(scan[p][f].text, l))
    BY DEF Changed
  <2>4. i \in DOMAIN u /\ u[i] = l
    BY <2>2, <2>3, OnceAt
  <2>5. <<f, i>> \in Blocks(pages[p]) /\ <<f, i>> \in Blocks(basis[p])
    BY <2>2, <2>4, BlocksOf DEF Parses
  <2>6. Section(pages[p], <<f, i>>) # Section(basis[p], <<f, i>>)
    BY <2>2, <2>3 DEF Section
  <2>7. AstHash(Block(pages[p], <<f, i>>)) = AstHash(Block(basis[p], <<f, i>>))
    BY <2>2, <2>4 DEF Block
  <2>8. <<f, i>> \in SectionDrift(pages[p], basis[p])
    BY <2>5, <2>6, <2>7 DEF SectionDrift
  <2>. QED BY <2>8 DEF Reported
<1>. QED BY <1>1, CommandInvHolds, PTL
=============================================================================
