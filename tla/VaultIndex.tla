----------------------------- MODULE VaultIndex -----------------------------
(***************************************************************************)
(* The commands of zetl and the two caches they share: .zetl/index.json,   *)
(* the parsed pages, and .zetl/theory.json, the logic of their SPL blocks  *)
(* (main.rs run_pipeline and build_or_load_theory, cache.rs, drift.rs).    *)
(* Each command is a process of its own that loads the index, scans the    *)
(* vault, takes what it may from the index, saves it, and then reasons or  *)
(* checks for drift.  Nothing keeps two commands, or a command and an      *)
(* editor, apart, and a command may be stopped anywhere.                   *)
(*                                                                         *)
(* A page is a sequence of lines, each with a block of Markdown that       *)
(* begins there or with none.  What the parser gets from a text is an      *)
(* operator on the text, so that a cached page is the text it was parsed   *)
(* from, with an mtime.                                                    *)
(***************************************************************************)
EXTENDS Naturals, Sequences, FiniteSets

CONSTANTS
  Files, Procs,
  Levels,       \* levels of headings
  Prose,        \* paragraphs and lists
  Edged,        \* those with a typed link
  Said,         \* one with the same words: what is left without emphasis, line
                \* breaks and the boundaries of list items
  Logics,       \* contents of an SPL block
  Unparsable,   \* those that do not parse
  Texts,        \* what a file may hold: sequences of lines
  Commands,     \* those that are given
  MaxWrites, MaxCommands

Blank == [kind |-> "blank"]
Lines ==
  {Blank} \cup [kind : {"head"}, level : Levels]
          \cup [kind : {"prose"}, text : Prose]
          \cup [kind : {"spl"}, logic : Logics]

ASSUME VaultAssumption ==
  /\ Levels \subseteq Nat
  /\ Edged \subseteq Prose /\ Said \in [Prose -> Prose] /\ Unparsable \subseteq Logics
  /\ Texts \subseteq Seq(Lines)
  /\ Commands \subseteq {"check", "check --no-cache", "reason", "reason --no-cache"}
  /\ MaxWrites \in Nat /\ MaxCommands \in Nat

VARIABLES
  present,   \* the files that exist
  text,      \* what they hold
  mtime,     \* when they were last written
  clock,
  index,     \* .zetl/index.json
  theory,    \* .zetl/theory.json
  pc, cmd,   \* what a process does, and how far it is
  cached,    \* the index that it loaded
  todo,      \* files that the scan has listed
  read,      \* files that it has read, and whose mtime it has not asked for
  scan,      \* files that it has scanned
  pages,     \* the parsed pages that the command works on
  basis,     \* the pages that the theory it uses was built from
  started,   \* number of commands started
  raced      \* history: <<f, m>> if f was written, with mtime m, between the
             \* read and the stat of a scan

vaultVars == <<present, text, mtime, clock, raced>>
cacheVars == <<index, theory>>
procVars  == <<pc, cmd, cached, todo, read, scan, pages, basis, started>>
vars      == <<vaultVars, cacheVars, procVars>>

-----------------------------------------------------------------------------
(* What the parser makes of a text. *)

IsBlock(l) == l.kind = "spl"
IsLeaf(l)  == l # Blank
IsProse(l) == IsLeaf(l) /\ ~IsBlock(l)
Parses(l)  == IsBlock(l) /\ l.logic \notin Unparsable

\* The lines of a text at the positions S as a list: each with its number.
Listed(t, S) == {<<Cardinality({j \in S : j <= i}), t[i]>> : i \in S}

\* build_merkle_leaves: a leaf is the hash of the words of a block, of which a
\* typed link is none: that is a predicate at the start of a line.
Hashed(l) == IF l.kind = "prose" THEN [kind |-> "prose", text |-> Said[l.text]] ELSE l
Hashes(t) == [i \in DOMAIN t |-> Hashed(t[i])]

\* compute_file_root: what a text says, not where.
Root(t) == Listed(Hashes(t), {i \in DOMAIN t : IsLeaf(t[i])})

\* The hash of the logic; blocks that do not parse have the same.
AstHash(l) == {l.logic} \ Unparsable

\* grounding_section: from the last heading before the block, or the start, to
\* the next heading of its level, or to the first one.
Heads(t) == {j \in DOMAIN t : t[j].kind = "head"}
SectionStart(t, i) ==
  {s \in {0} \cup Heads(t) : s < i /\ ~\E k \in Heads(t) : s < k /\ k < i}
SectionEnds(t, s) == {k \in Heads(t) : k > s /\ (s > 0 => t[k].level <= t[s].level)}
Grounding(t, i) ==
  Listed(Hashes(t),
         {j \in DOMAIN t :
            /\ IsProse(t[j])
            /\ \E s \in SectionStart(t, i) : s <= j /\ \A k \in SectionEnds(t, s) : j < k})

\* The SPL blocks of a set of pages, by path and line, and their hashes.
Blocks(ps) ==
  UNION {{f} \X {i \in DOMAIN ps[f].text : IsBlock(ps[f].text[i])} : f \in DOMAIN ps}
Block(ps, b)   == ps[b[1]].text[b[2]]
Section(ps, b) == Grounding(ps[b[1]].text, b[2])
SplHashes(ps)  == [b \in Blocks(ps) |-> AstHash(Block(ps, b))]

\* The rules of a text, and the facts from the typed links of the pages.
Rules(t) == Listed(t, {i \in DOMAIN t : Parses(t[i])})
RulesOf(ps) == [f \in Files |-> IF f \in DOMAIN ps THEN Rules(ps[f].text) ELSE {}]
Links(t) == {e \in Edged : \E i \in DOMAIN t : t[i] = [kind |-> "prose", text |-> e]}
EdgeFacts(ps) == UNION {{f} \X Links(ps[f].text) : f \in DOMAIN ps}

TheoryValid(ps, th) == SplHashes(ps) = SplHashes(th)

\* Broken variant: a page with another mtime is kept without a look at its root.
MergedUnseen(old, new) ==
  [f \in DOMAIN new |->
     IF f \notin DOMAIN old THEN new[f] ELSE [old[f] EXCEPT !.mtime = new[f].mtime]]

\* files_needing_reparse and the merge of run_pipeline.
Merged(old, new) ==
  [f \in DOMAIN new |->
     IF f \notin DOMAIN old THEN new[f]
     ELSE IF old[f].mtime = new[f].mtime THEN old[f]
     ELSE IF Root(old[f].text) = Root(new[f].text)
          THEN [old[f] EXCEPT !.mtime = new[f].mtime]
     ELSE new[f]]

\* Broken variant: the logic of the block may be another too.
SectionDriftOfAnyLogic(ps, th) ==
  {b \in Blocks(ps) \cap Blocks(th) : Section(ps, b) # Section(th, b)}

\* Broken variant: not with typed links, for which no theory is cached.
SectionDriftUntyped(ps, th) ==
  IF EdgeFacts(ps) = {} THEN SectionDriftOfAnyLogic(ps, th) ELSE {}

\* detect_section_drift: the blocks it reports.
SectionDrift(ps, th) ==
  {b \in Blocks(ps) \cap Blocks(th) :
     /\ Section(ps, b) # Section(th, b)
     /\ AstHash(Block(ps, b)) = AstHash(Block(th, b))}

-----------------------------------------------------------------------------
NoPages == [f \in {} |-> FALSE]
Missing == [is |-> "missing", pages |-> NoPages]
Empty   == [is |-> "empty", pages |-> NoPages]   \* truncated, and not written
Mixed   == [is |-> "mixed", pages |-> NoPages]   \* the end of one after another
Whole(ps) == [is |-> "whole", pages |-> ps]
Readable(file) == file.is = "whole"

\* What a file holds after the write of a process that truncated it: all of
\* it, unless another one has written since, and something longer.
Written(file, ps) == {Whole(ps)} \cup IF file.is = "empty" THEN {} ELSE {Mixed}

Init ==
  /\ present = Files /\ text \in [Files -> Texts]
  /\ mtime = [f \in Files |-> 0] /\ clock = 0 /\ raced = {}
  /\ index = Missing /\ theory = Missing
  /\ pc = [p \in Procs |-> "idle"] /\ cmd = [p \in Procs |-> "none"]
  /\ cached = [p \in Procs |-> NoPages] /\ todo = [p \in Procs |-> {}]
  /\ read = [p \in Procs |-> NoPages] /\ scan = [p \in Procs |-> NoPages]
  /\ pages = [p \in Procs |-> NoPages] /\ basis = [p \in Procs |-> NoPages]
  /\ started = 0

Goto(p, l) == pc' = [pc EXCEPT ![p] = l]

-----------------------------------------------------------------------------
(* Editors and other programs. *)

\* A file is written, also with the text that it has, or for the first time.
Write(f) ==
  /\ clock < MaxWrites
  /\ clock' = clock + 1
  /\ \E t \in Texts : text' = [text EXCEPT ![f] = t]
  /\ mtime' = [mtime EXCEPT ![f] = clock']
  /\ present' = present \cup {f}
  /\ raced' = IF \E p \in Procs : f \in DOMAIN read[p]
              THEN raced \cup {<<f, clock'>>} ELSE raced
  /\ UNCHANGED <<cacheVars, procVars>>

Delete(f) ==
  /\ f \in present
  /\ present' = present \ {f}
  /\ UNCHANGED <<text, mtime, clock, raced, cacheVars, procVars>>

\* Somebody deletes the directory .zetl.
Wipe ==
  /\ index' = Missing /\ theory' = Missing
  /\ UNCHANGED <<vaultVars, procVars>>

-----------------------------------------------------------------------------
(* A command.  "check" is zetl check --drift, "reason" is zetl reason; each *)
(* may be given --no-cache.                                                 *)

NoCache(p) == cmd[p] \in {"check --no-cache", "reason --no-cache"}
Checks(p)  == cmd[p] \in {"check", "check --no-cache"}

Start(p, c) ==
  /\ pc[p] = "idle" /\ started < MaxCommands
  /\ started' = started + 1
  /\ cmd' = [cmd EXCEPT ![p] = c]
  /\ Goto(p, "load")
  /\ UNCHANGED <<vaultVars, cacheVars, cached, todo, read, scan, pages, basis>>

\* load_cache, and the walk of scan_vault.
Load(p) ==
  /\ pc[p] = "load"
  /\ NoCache(p) \/ index.is \in {"missing", "whole"}
  /\ cached' = [cached EXCEPT ![p] = IF NoCache(p) THEN NoPages ELSE index.pages]
  /\ todo' = [todo EXCEPT ![p] = present]
  /\ Goto(p, "scan")
  /\ UNCHANGED <<vaultVars, cacheVars, cmd, read, scan, pages, basis, started>>

\* The process ends: done, failed or killed.
End(p) ==
  /\ Goto(p, "idle")
  /\ cached' = [cached EXCEPT ![p] = NoPages] /\ todo' = [todo EXCEPT ![p] = {}]
  /\ read' = [read EXCEPT ![p] = NoPages] /\ scan' = [scan EXCEPT ![p] = NoPages]
  /\ pages' = [pages EXCEPT ![p] = NoPages] /\ basis' = [basis EXCEPT ![p] = NoPages]
  /\ cmd' = [cmd EXCEPT ![p] = "none"]
  /\ UNCHANGED <<vaultVars, cacheVars, started>>

\* serde_json fails on half a file, and the command with it.
LoadFails(p) ==
  /\ pc[p] = "load" /\ ~NoCache(p)
  /\ index.is \in {"empty", "mixed"}
  /\ End(p)

\* The files are scanned in parallel: each is read, and then asked for its mtime.
ReadFile(p, f) ==
  /\ pc[p] = "scan" /\ f \in todo[p] /\ f \in present
  /\ todo' = [todo EXCEPT ![p] = @ \ {f}]
  /\ read' = [read EXCEPT ![p] = [g \in {f} \cup DOMAIN @ |-> IF g = f THEN text[f] ELSE @[g]]]
  /\ UNCHANGED <<vaultVars, cacheVars, pc, cmd, cached, scan, pages, basis, started>>

\* Broken variant: the mtime is rounded up to a coarser unit.
StatFileRounded(p, f) ==
  /\ pc[p] = "scan" /\ f \in DOMAIN read[p] /\ f \in present
  /\ scan' = [scan EXCEPT ![p] = [g \in {f} \cup DOMAIN @ |->
                IF g = f THEN [text |-> read[p][f], mtime |-> mtime[f] + (mtime[f] % 2)] ELSE @[g]]]
  /\ read' = [read EXCEPT ![p] = [g \in DOMAIN @ \ {f} |-> @[g]]]
  /\ UNCHANGED <<vaultVars, cacheVars, pc, cmd, cached, todo, pages, basis, started>>

StatFile(p, f) ==
  /\ pc[p] = "scan" /\ f \in DOMAIN read[p] /\ f \in present
  /\ scan' = [scan EXCEPT ![p] = [g \in {f} \cup DOMAIN @ |->
                IF g = f THEN [text |-> read[p][f], mtime |-> mtime[f]] ELSE @[g]]]
  /\ read' = [read EXCEPT ![p] = [g \in DOMAIN @ \ {f} |-> @[g]]]
  /\ UNCHANGED <<vaultVars, cacheVars, pc, cmd, cached, todo, pages, basis, started>>

\* A file that was listed is gone.
ScanFails(p) ==
  /\ pc[p] = "scan"
  /\ \E f \in todo[p] \cup DOMAIN read[p] : f \notin present
  /\ End(p)

Merge(p) ==
  /\ pc[p] = "scan" /\ todo[p] = {} /\ DOMAIN read[p] = {}
  /\ pages' = [pages EXCEPT ![p] = Merged(cached[p], scan[p])]
  /\ cached' = [cached EXCEPT ![p] = NoPages]
  /\ Goto(p, IF NoCache(p) THEN "query" ELSE "save")
  /\ UNCHANGED <<vaultVars, cacheVars, cmd, todo, read, scan, basis, started>>

\* save_cache: fs::write truncates the file, and then writes it.
SaveTruncate(p) ==
  /\ pc[p] = "save"
  /\ index' = Empty
  /\ Goto(p, "write")
  /\ UNCHANGED <<vaultVars, theory, cmd, cached, todo, read, scan, pages, basis, started>>

SaveWrite(p) ==
  /\ pc[p] = "write"
  /\ index' \in Written(index, pages[p])
  /\ Goto(p, "query")
  /\ UNCHANGED <<vaultVars, theory, cmd, cached, todo, read, scan, pages, basis, started>>

\* Either step fails; the command goes on.
SaveFails(p) ==
  /\ pc[p] \in {"save", "write"}
  /\ Goto(p, "query")
  /\ UNCHANGED <<vaultVars, cacheVars, cmd, cached, todo, read, scan, pages, basis, started>>

\* check: the theory of the last build, if there is one, is what drift is
\* measured from.
Check(p) ==
  /\ pc[p] = "query" /\ Checks(p)
  /\ basis' = [basis EXCEPT ![p] = theory.pages]
  /\ Goto(p, "checked")
  /\ UNCHANGED <<vaultVars, cacheVars, cmd, cached, todo, read, scan, pages, started>>

\* Broken variant: also with typed links.
TheoryCachedAnyway(p) == ~NoCache(p)

\* The theory is neither loaded nor saved with --no-cache or typed links.
TheoryCached(p) == ~NoCache(p) /\ EdgeFacts(pages[p]) = {}

\* build_or_load_theory takes the theory that is there ...
Reuse(p) ==
  /\ pc[p] = "query" /\ ~Checks(p)
  /\ TheoryCached(p)
  /\ Readable(theory) /\ TheoryValid(pages[p], theory.pages)
  /\ basis' = [basis EXCEPT ![p] = theory.pages]
  /\ Goto(p, "answered")
  /\ UNCHANGED <<vaultVars, cacheVars, cmd, cached, todo, read, scan, pages, started>>

\* ... or builds a new one, and saves it.
Build(p) ==
  /\ pc[p] = "query" /\ ~Checks(p)
  /\ ~(TheoryCached(p) /\ Readable(theory) /\ TheoryValid(pages[p], theory.pages))
  /\ basis' = [basis EXCEPT ![p] = pages[p]]
  /\ Goto(p, IF TheoryCached(p) THEN "save theory" ELSE "answered")
  /\ UNCHANGED <<vaultVars, cacheVars, cmd, cached, todo, read, scan, pages, started>>

TheoryTruncate(p) ==
  /\ pc[p] = "save theory"
  /\ theory' = Empty
  /\ Goto(p, "write theory")
  /\ UNCHANGED <<vaultVars, index, cmd, cached, todo, read, scan, pages, basis, started>>

TheoryWrite(p) ==
  /\ pc[p] = "write theory"
  /\ theory' \in Written(theory, pages[p])
  /\ Goto(p, "answered")
  /\ UNCHANGED <<vaultVars, index, cmd, cached, todo, read, scan, pages, basis, started>>

TheoryFails(p) ==
  /\ pc[p] \in {"save theory", "write theory"}
  /\ Goto(p, "answered")
  /\ UNCHANGED <<vaultVars, cacheVars, cmd, cached, todo, read, scan, pages, basis, started>>

Done(p) == pc[p] \in {"checked", "answered"} /\ End(p)

\* The process is stopped, in the middle of a write too.
Kill(p) == pc[p] \notin {"idle", "checked", "answered"} /\ End(p)

-----------------------------------------------------------------------------
Scanning(p) ==
  \/ Load(p) \/ LoadFails(p)
  \/ \E f \in Files : ReadFile(p, f) \/ StatFile(p, f)
  \/ ScanFails(p) \/ Merge(p)
  \/ SaveTruncate(p) \/ SaveWrite(p) \/ SaveFails(p)
Querying(p) ==
  \/ Check(p) \/ Reuse(p) \/ Build(p)
  \/ TheoryTruncate(p) \/ TheoryWrite(p) \/ TheoryFails(p)
Next ==
  \/ \E f \in Files : Write(f) \/ Delete(f)
  \/ Wipe
  \/ \E p \in Procs :
       \/ \E c \in Commands : Start(p, c)
       \/ Scanning(p) \/ Querying(p)
       \/ Done(p) \/ Kill(p)

Spec == Init /\ [][Next]_vars

-----------------------------------------------------------------------------
(* Properties. *)

\* Parsed pages, with mtimes up to m.
Parsed(ps, m) ==
  /\ DOMAIN ps \subseteq Files
  /\ ps \in [DOMAIN ps -> [text : Texts, mtime : 0..m]]
CacheFile(file) ==
  /\ file.is \in {"missing", "empty", "mixed", "whole"}
  /\ Parsed(file.pages, clock)
Stages ==
  {"idle", "load", "scan", "save", "write", "query", "checked", "save theory",
   "write theory", "answered"}

\* Types: nothing that a command has, or left, was parsed from a text of a
\* later time than now.
VaultTypeOK ==
  /\ present \subseteq Files /\ text \in [Files -> Texts]
  /\ clock \in 0..MaxWrites /\ mtime \in [Files -> 0..clock]
  /\ raced \subseteq Files \X (0..clock)
  /\ CacheFile(index) /\ CacheFile(theory)
  /\ pc \in [Procs -> Stages] /\ cmd \in [Procs -> Commands \cup {"none"}]
  /\ started \in 0..MaxCommands
  /\ todo \in [Procs -> SUBSET Files]
  /\ \A p \in Procs :
       /\ DOMAIN read[p] \subseteq Files
       /\ read[p] \in [DOMAIN read[p] -> Texts]
       /\ \A ps \in {cached[p], scan[p], pages[p], basis[p]} : Parsed(ps, clock)

\* A page of index.json with the mtime of its file says what the file says (its
\* root is the file's), however many commands saved the index and in whatever
\* order, and wherever they were stopped; except for a file that was written
\* while a scan had read it and not yet asked for its mtime.
Follows(ps) ==
  \A f \in DOMAIN ps :
    ps[f].mtime = mtime[f] /\ <<f, mtime[f]>> \notin raced => Root(ps[f].text) = Root(text[f])
IndexFollowsFiles == Follows(index.pages)

\* The files that a command took as they are, and not as an older scan mistook
\* them.
Sound(p) == {f \in DOMAIN scan[p] : <<f, scan[p][f].mtime>> \notin raced}

\* The typed links on a file, of those that ps have.
LinksOn(ps, f) == {e \in Edged : <<f, e>> \in EdgeFacts(ps)}

\* A command reasons with the rules of the files that it read, and with all the
\* typed links of one text per file, although they may come through two caches
\* that others write.  That text has the root of the file; its links may be
\* older, for the root does not tell a typed link from the same words without
\* one.  Only with --no-cache they are those of the file.
ReasonIsCurrent ==
  \A p \in Procs : pc[p] = "answered" /\ Sound(p) = DOMAIN scan[p] =>
    /\ RulesOf(basis[p]) = RulesOf(scan[p])
    /\ \A f \in DOMAIN scan[p] :
         \E t \in Texts : Root(t) = Root(scan[p][f].text) /\ LinksOn(basis[p], f) = Links(t)
    /\ \A f \in Files \ DOMAIN scan[p] : LinksOn(basis[p], f) = {}
    /\ NoCache(p) => EdgeFacts(basis[p]) = EdgeFacts(scan[p])

\* Where a block is that occurs once in a text.
Once(t, l) == Cardinality({i \in DOMAIN t : t[i] = l}) = 1
At(t, l)   == CHOOSE i \in DOMAIN t : t[i] = l
\* The blocks of a page that a drift check can follow from the theory to the files.
Followed(p, f) ==
  {l \in Lines : Parses(l) /\ Once(basis[p][f].text, l) /\ Once(scan[p][f].text, l)}
Changed(p, f, l) ==
  Grounding(basis[p][f].text, At(basis[p][f].text, l)) #
    Grounding(scan[p][f].text, At(scan[p][f].text, l))
Reported(p, f, l) ==
  <<f, At(pages[p][f].text, l)>> \in SectionDrift(pages[p], basis[p])
Checked(p) ==
  UNION {{f} \X Followed(p, f) : f \in Sound(p) \cap DOMAIN basis[p]}

\* No false alarm: a block that check reports has another section in the file,
\* with other words, than it had when the theory was built.
DriftIsReal ==
  \A p \in Procs : pc[p] = "checked" =>
    \A b \in Checked(p) : Reported(p, b[1], b[2]) => Changed(p, b[1], b[2])

\* A block whose section changed is reported, unless it moved to another line.
DriftIsReported ==
  \A p \in Procs : pc[p] = "checked" =>
    \A b \in Checked(p) :
      /\ Changed(p, b[1], b[2])
      /\ At(basis[p][b[1]].text, b[2]) = At(pages[p][b[1]].text, b[2])
      => Reported(p, b[1], b[2])
=============================================================================
