------------------------- MODULE IncrementalBuildInv -------------------------
(***************************************************************************)
(* The inductive invariant behind SoundUnlessDisturbed and CacheSound.     *)
(*                                                                         *)
(* While a build walks the modules, the cache is sound for the modules     *)
(* behind it; ahead of it a module's files are sound or something below    *)
(* the module has been restamped, which is the window StampsAhead names.   *)
(***************************************************************************)
EXTENDS IncrementalBuild

\* Everything a translation of m reads is as a timestamp of mode o records it.
Vouched(o, m) == \A d \in Sources(m) : StampValid(o, d)

\* The kept file of m, and its declarations, are what Vouched makes a build
\* believe they are.
KeptSound(m) ==
    \A o \in OutModes :
        Present(layout, m) /\ Vouched(o, m) => Kept(layout, m) = Fresh(o, m)
HeaderSound(m) ==
    \A o \in OutModes : header[m] # NoFile /\ Vouched(o, m) => header[m] = Fresh(o, m)
JobSound ==
    \A o \in OutModes :
        jobObject.exists /\ (\A m \in Chem : StampValid(o, m))
            => jobObject.made = {<<m, src[m], o>> : m \in Chem}

AtModule == phase \in {"import", "translate", "stamp", "compile"}
PastImport == phase \in {"translate", "stamp", "compile"}

\* The chemical modules whose files the build has read.
Imported == Chem \cap (Done \cup (IF PastImport THEN {Cur} ELSE {}))

\* What the timestamps say the files of an unchanged module were made from.
FromStamps(m) == {<<d, stamp[d][1], outMode>> : d \in Sources(m)}

\* A set of origins that contradicts no timestamp the files still agree with.
Honest(S) ==
    \A t \in S : stamp[t[1]] # NoStamp /\ stamp[t[1]][1] = src[t[1]]
                    => t[2] = src[t[1]]

\* Where a build can be.
PhaseInv ==
    /\ phase = "idle" => pos = 1 /\ restamped = {} /\ unit = NoFile
    /\ AtModule => pos \in 1..Len(Order)
    /\ phase = "job" => pos = Len(Order) + 1 /\ layout # "llvm"
    /\ phase = "link" => pos = Len(Order) + 1 \/ restamped = {}
    /\ phase \in {"translate", "compile"} => Cur \in Chem
    /\ phase = "stamp" => caching
    /\ phase = "compile" => layout = "multi"
    /\ phase # "idle" => layout # "none"
    /\ ~caching => restamped = {}
    /\ restamped \subseteq Done \cup (IF phase = "compile" THEN {Cur} ELSE {})
    /\ status = "running" <=> phase # "idle"

\* Versions only grow, and nothing records one from the future.
VersionInv ==
    /\ \A m \in Module : stamp[m] # NoStamp => stamp[m][1] <= src[m]
    /\ \A m \in Module : parsed[m] <= src[m]
    /\ ~disturbed => \A m \in Imported :
           stamp[m] # NoStamp => stamp[m][1] <= parsed[m]
    /\ \A m \in Imported : ~edited => parsed[m] = src[m]
    /\ ~disturbed /\ caching /\ (phase = "stamp" \/ (phase = "translate" /\ ~CacheHit))
          => (Cur \in Chem => parsed[Cur] = src[Cur])

\* Files of the layouts that are not in use do not exist.
LayoutInv ==
    ~disturbed =>
        /\ layout # "single" => \A m \in Module : partial[m] = NoFile
        /\ layout # "multi" => \A m \in Module : header[m] = NoFile
        /\ \A m \in Module \ Chem : header[m] = NoFile
        /\ layout = "none" =>
              (\A m \in Module : object[m] = NoFile) /\ ~jobObject.exists

\* Modules found unchanged: so are those below, and their files are what their
\* timestamps say.
UnchangedInv ==
    phase # "idle" /\ ~disturbed =>
        /\ \A m \in Module : hasChanged[m] = "unchanged" =>
              /\ caching
              /\ \A d \in Closure(m) :
                    /\ hasChanged[d] = "unchanged"
                    /\ stamp[d] # NoStamp /\ stamp[d][2] = outMode
                    /\ ~edited => stamp[d][1] = src[d]
              /\ Kept(layout, m) = FromStamps(m)
              /\ header[m] # NoFile => header[m] = FromStamps(m)
        /\ phase \in {"stamp", "compile"} => hasChanged[Cur] # "unchanged"

\* Modes of the timestamps a build meets behind it, or anywhere when it does
\* not renew them.
ModeInv ==
    phase # "idle" /\ ~disturbed =>
        /\ ~caching => \A m \in Module :
              stamp[m] # NoStamp => stamp[m][2] = outMode
        /\ caching => \A m \in Done : stamp[m] # NoStamp /\ stamp[m][2] = outMode
        /\ \A m \in restamped : stamp[m] # NoStamp /\ stamp[m][2] = outMode
        /\ phase = "compile" /\ caching => Cur \in restamped

\* The cache between builds, behind a build and ahead of it.
FilesInv ==
    ~disturbed =>
        /\ \A m \in Done : KeptSound(m) /\ HeaderSound(m)
        /\ \A m \in Module \ Done :
              \/ restamped \cap Sources(m) # {}
              \/ phase = "stamp" /\ m = Cur
              \/ KeptSound(m) /\ HeaderSound(m)
        /\ layout = "single" /\ (phase = "link" \/ restamped \cap Chem = {}) => JobSound

\* The module being processed, between the write of its kept file and the next
\* module.
CurrentInv ==
    ~disturbed =>
        /\ phase = "stamp" /\ Cur \in Chem =>
              /\ layout = "single" => partial[Cur] = Text(Cur)
              /\ layout = "llvm" => object[Cur] = Text(Cur)
              /\ layout = "multi" =>
                    /\ header[Cur] = Text(Cur)
                    /\ restamped \cap Sources(Cur) # {} \/ KeptSound(Cur)
        /\ phase = "stamp" /\ Cur \notin Chem =>
              object[Cur] = {<<Cur, src[Cur], outMode>>}
        /\ phase = "compile" => HeaderSound(Cur)

\* The C text in the writer: everything imported and translated so far, in the
\* versions the timestamps agree with.
UnitInv ==
    phase # "idle" /\ phase # "link" /\ layout # "llvm" /\ ~disturbed =>
        /\ \A t \in unit :
              /\ t[1] \in Chem
              /\ t[1] \in Done \/ (phase \in {"stamp", "compile"} /\ t[1] = Cur)
              /\ t[3] = outMode
              /\ ~edited => t[2] = src[t[1]]
        /\ Honest(unit)
        /\ \A m \in Chem : m \in Done \/ (phase \in {"stamp", "compile"} /\ m = Cur)
              => \E t \in unit : t[1] = m
        /\ phase \in {"stamp", "compile"} =>
              \A t \in unit : t[1] = Cur => t[2] = parsed[Cur]

\* What a link would read.
LinkInv ==
    /\ phase # "idle" /\ ~edited /\ ~disturbed =>
          \A m \in Done : layout # "single" \/ m \notin Chem
                              => object[m] = Fresh(outMode, m)
    /\ phase = "link" /\ ~edited /\ ~disturbed => Linked = CleanOutput

CacheInv ==
    /\ LayoutInv
    /\ UnchangedInv
    /\ ModeInv
    /\ FilesInv
    /\ CurrentInv
    /\ UnitInv
    /\ LinkInv
    /\ SoundUnlessDisturbed

IInv == TypeOK /\ PhaseInv /\ VersionInv /\ CacheInv
=============================================================================
