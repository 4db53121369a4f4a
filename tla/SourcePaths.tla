----------------------------- MODULE SourcePaths -----------------------------
(***************************************************************************)
(* Where the source of a frame is: the paths gdb reports, matched with the *)
(* files of the project (internal/srcfs/index.go, srcfs.go), and the       *)
(* substitutions the session teaches gdb (internal/debugger/paths.go).     *)
(*                                                                         *)
(* A path is the sequence of its components, an absolute one beginning     *)
(* with the empty name; a compiler records "." and ".." as it was given    *)
(* them, and a backslash in front stands for a path written with them.     *)
(* gdb is external: it rewrites the path the compiler recorded, as it is   *)
(* written, by the first rule that matches, looks for the file there and   *)
(* then, by its base name, in the directories it was given, and reports    *)
(* the rewritten name if it finds neither.                                 *)
(***************************************************************************)
EXTENDS Naturals, SequencesExt

CONSTANTS
    Root,       \* the project's directory
    Files,      \* the project's files, below Root: all of them indexed
    Stacks,     \* the stacks a stop may show: sequences of recorded paths
    Rewrites,   \* pairs of prefixes somebody types: [from, to]
    Dirs,       \* source directories somebody adds, below Root
    MaxRules    \* bound: the substitutions made

VARIABLES
    gdb,        \* what gdb was told: its rules and its source directories
    subs,       \* st.substitutions
    srcCache,   \* what a reported path resolved to
    frames,     \* the stack the browsers show; empty while the program runs
    choice      \* history: the last file somebody picked, for which path, and
                \* whether a stack has been read since

pathVars == <<gdb, subs, srcCache, frames, choice>>

None == <<>>
NoChoice == [recorded |-> None, path |-> None, read |-> FALSE]

-----------------------------------------------------------------------------
(* Paths.                                                                  *)

Backslashed(path) == path # <<>> /\ Head(path) = "\\"

\* strings.ReplaceAll, backslashes by slashes.
Slashed(path) == IF Backslashed(path) THEN Tail(path) ELSE path

\* path.Clean: no ".", and no ".." but in front of a relative path.
Clean(path) ==
    LET Step(sofar, c) ==
            CASE c = "." -> sofar
              [] c = ".." /\ sofar # <<>> /\ Last(sofar) = "" -> sofar
              [] c = ".." /\ sofar # <<>> /\ Last(sofar) \notin {"", ".."} -> Front(sofar)
              [] OTHER -> Append(sofar, c)
    IN FoldLeft(Step, <<>>, path)

Below(path, prefix) == SubSeq(path, Len(prefix) + 1, Len(path))

Exists(path) == IsStrictPrefix(Root, Clean(path)) /\ Below(Clean(path), Root) \in Files

-----------------------------------------------------------------------------
(* gdb.                                                                    *)

\* The path under the first rule that matches it.
Rewritten(rules, path) ==
    LET matching == SelectSeq(rules, LAMBDA r : IsStrictPrefix(r.from, path))
    IN  IF matching = <<>> THEN path
        ELSE Head(matching).to \o Below(path, Head(matching).from)

\* The full name g gives a file: the real one of a file it finds.
Reported(g, path) ==
    LET there == Rewritten(g.rules, path)
        found == SelectSeq(g.dirs, LAMBDA d : ~Backslashed(path) /\ Exists(Append(d, Last(path))))
    IN  IF Exists(there) THEN Clean(there)
        ELSE IF found = <<>> THEN there ELSE Append(Head(found), Last(path))

\* A rule replaces the one with the same prefix, and comes last.
Told(g, r) ==
    [g EXCEPT !.rules = Append(SelectSeq(@, LAMBDA x : x.from # r.from), r)]

-----------------------------------------------------------------------------
(* The index.                                                              *)

\* Files of the same base name, which a path with backslashes has none of.
CandidatesFor(path) ==
    IF Backslashed(path) THEN {} ELSE {f \in Files : Last(f) = Last(Clean(path))}

CommonSuffix(a, b) ==
    Max({n \in 0..Min({Len(a), Len(b)}) : IsSuffix(SubSeq(a, Len(a) - n + 1, Len(a)), b)})

\* The only candidate, or the one that shares more of the path than any other.
Locate(path) ==
    LET wanted == Clean(Slashed(path))
        same == CandidatesFor(wanted)
    IN  {f \in same : \A g \in same \ {f} : CommonSuffix(wanted, g) < CommonSuffix(wanted, f)}

NoRule == [from |-> <<>>, to |-> <<>>]

\* Mutant: the prefixes are cut one component too late.
SubstitutionForLate(path, rel) ==
    LET cleaned == Clean(Slashed(path))
        shared == CommonSuffix(cleaned, rel)
        r == [from |-> SubSeq(cleaned, 1, Len(cleaned) - shared + 1),
              to |-> Root \o SubSeq(rel, 1, Len(rel) - shared)]
    IN  IF shared = 0 \/ r.from \in {<<>>, <<"">>} \/ r.from = r.to THEN NoRule ELSE r

\* What is left of the two paths, once clean, without the components they share.
SubstitutionFor(path, rel) ==
    LET cleaned == Clean(Slashed(path))
        shared == CommonSuffix(cleaned, rel)
        r == [from |-> SubSeq(cleaned, 1, Len(cleaned) - shared),
              to |-> Root \o SubSeq(rel, 1, Len(rel) - shared)]
    IN  IF shared = 0 \/ r.from \in {<<>>, <<"">>} \/ r.from = r.to THEN NoRule ELSE r

-----------------------------------------------------------------------------
(* The session.                                                            *)

Ref(path, candidates) == [path |-> path, candidates |-> candidates]

\* teachSubstitution, of the resolution acc: once for a prefix, if gdb answers,
\* and then what was resolved before is forgotten.
Teach(acc, path, rel, answered) ==
    LET r == SubstitutionFor(path, rel)
    IN  IF r = NoRule \/ ~answered \/ (\E i \in DOMAIN acc.subs : acc.subs[i].from = r.from)
        THEN acc
        ELSE [acc EXCEPT !.gdb = Told(@, r), !.subs = Append(@, r), !.cache = <<>>]

\* resolveSourceFull, of a path gdb reports.
Resolve(acc, path, answered) ==
    LET Noted(a, ref) == [a EXCEPT !.cache = (path :> ref) @@ @, !.refs = Append(@, ref)]
        rel == CHOOSE f \in Locate(path) : TRUE
    IN  IF path \in DOMAIN acc.cache THEN [acc EXCEPT !.refs = Append(@, acc.cache[path])]
        ELSE IF Exists(path) THEN Noted(acc, Ref(Below(path, Root), {}))
        ELSE IF Locate(path) # {} THEN Noted(Teach(acc, path, rel, answered), Ref(rel, {}))
        ELSE Noted(acc, Ref(None, CandidatesFor(path)))

\* The paths of one reply of g, resolved in order.
Read(g, list, cache, stack, answered) ==
    FoldLeft(LAMBDA acc, path : Resolve(acc, Reported(g, path), answered),
             [gdb |-> g, subs |-> list, cache |-> cache, refs |-> <<>>], stack)

\* What a reading leaves gdb and the session with.
Leaves(r) ==
    /\ Len(r.subs) <= MaxRules
    /\ gdb' = r.gdb /\ subs' = r.subs /\ srcCache' = r.cache

\* The stack of a reply of g, as it was read.
Framed(g, stack, r) ==
    [i \in DOMAIN stack |->
        [recorded |-> stack[i], gdbPath |-> Reported(g, stack[i]), ref |-> r.refs[i]]]

StackShown == [i \in DOMAIN frames |-> frames[i].recorded]

PathInit ==
    /\ gdb = [rules |-> <<>>, dirs |-> <<>>]
    /\ subs = <<>> /\ srcCache = <<>> /\ frames = <<>> /\ choice = NoChoice

\* The choice, when a stack is read.
Seen(heard) == [choice EXCEPT !.read = @ \/ heard]

\* fetchFrames, at a stop; gdb may fail to answer what it is taught.
Stop(stack, answered) ==
    /\ frames = <<>>
    /\ LET r == Read(gdb, subs, srcCache, stack, answered)
       IN  Leaves(r) /\ frames' = Framed(gdb, stack, r)
    /\ choice' = Seen(TRUE)

\* The program runs on; or another is loaded, which changes none of this.
Resume ==
    /\ frames # <<>>
    /\ frames' = <<>>
    /\ UNCHANGED <<gdb, subs, srcCache, choice>>

\* A listing names a file: the disassembly's, or the place gone to.
LookUp(path, answered) ==
    /\ Leaves(Read(gdb, subs, srcCache, <<path>>, answered))
    /\ UNCHANGED <<frames, choice>>

\* refreshFramesAfterPathChange: the stack, read again by the new rules; the
\* old one stays if gdb does not answer.
RefreshFrames(g, list, heard, answered) ==
    LET r == Read(g, list, <<>>, IF heard THEN StackShown ELSE <<>>, answered)
    IN  Leaves(r) /\ frames' = IF heard THEN Framed(g, StackShown, r) ELSE frames

\* pathSubstitute with two prefixes.
SubstitutePrefix(r, heard, answered) ==
    /\ RefreshFrames(Told(gdb, r), Append(subs, r), heard, answered)
    /\ choice' = NoChoice

\* A path as the compiler wrote it, which is clean: gdb can match its prefix.
Reachable(f) ==
    /\ f.gdbPath = f.recorded /\ Rewritten(gdb.rules, f.recorded) = f.recorded
    /\ f.recorded = Clean(Slashed(f.recorded))

\* pathSubstitute with the file somebody picked for a frame without one.
PickFile(f, rel, heard, answered) ==
    LET r == SubstitutionFor(f.gdbPath, rel)
    IN  /\ f.ref.path = None /\ rel \in f.ref.candidates
        /\ r # NoRule
        /\ RefreshFrames(Told(gdb, r), Append(subs, r), heard, answered)
        /\ choice' = IF Reachable(f)
                     THEN [recorded |-> f.recorded, path |-> rel, read |-> heard] ELSE NoChoice

\* pathAddDir.
AddDir(d, heard, answered) ==
    /\ d \notin ToSet(gdb.dirs)
    /\ RefreshFrames([gdb EXCEPT !.dirs = <<d>> \o @], subs, heard, answered)
    /\ choice' = Seen(heard)

\* gdb dies, and restartGDB starts one that knows nothing.
Restart ==
    /\ gdb' = [rules |-> <<>>, dirs |-> <<>>]
    /\ subs' = <<>> /\ srcCache' = <<>> /\ frames' = <<>> /\ choice' = NoChoice

PathNext ==
    \/ \E stack \in Stacks, answered \in BOOLEAN : Stop(stack, answered)
    \/ Resume
    \/ \E stack \in Stacks : \E path \in ToSet(stack), answered \in BOOLEAN : LookUp(path, answered)
    \/ \E heard, answered \in BOOLEAN :
          \/ \E r \in Rewrites : SubstitutePrefix(r, heard, answered)
          \/ \E i \in DOMAIN frames : \E rel \in frames[i].ref.candidates :
                PickFile(frames[i], rel, heard, answered)
          \/ \E d \in Dirs : AddDir(d, heard, answered)
    \/ Restart

PathSpec == PathInit /\ [][PathNext]_pathVars

-----------------------------------------------------------------------------
(* Properties.                                                             *)

\* A file somebody picks for a path no rule of gdb's rewrites is the one shown
\* for it, at once and at every stop after it, whatever gdb is taught or the
\* session remembers, until somebody types a rule or gdb is replaced (paths.go:
\* pathSubstitute, refreshFramesAfterPathChange).  Two exceptions: a path that
\* was not recorded clean ("./z/./u", "\build\u"), since the rule is made of
\* its clean form, which gdb may not match; and the stack on show when gdb
\* fails to give it again, which stays as it was until the next is read.
ChoiceTakesEffect ==
    choice.read =>
        \A i \in DOMAIN frames :
            frames[i].recorded = choice.recorded => frames[i].ref.path = choice.path
=============================================================================
