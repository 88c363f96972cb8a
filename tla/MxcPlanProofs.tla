---------------------------- MODULE MxcPlanProofs ----------------------------
(***************************************************************************)
(* That a plan that runs keeps its policy's promises, for every policy,    *)
(* machine and set of paths that the assumptions of MxcPlan allow.         *)
(*                                                                         *)
(* The argument about files is one about prefixes: two prefixes of a path  *)
(* are prefixes of each other one way or the other, so a grant that opens  *)
(* a path in a directory covers the directory or lies inside it, and each  *)
(* of the two is what Translate looks for.                                 *)
(***************************************************************************)
EXTENDS MxcPlan, SequenceTheorems, TLAPS

\* The names of a path: strings.  That the literals are strings too is more than
\* the provers know.
Names == STRING \union {"Documents", "PowerShell", "npm", ".ssh"}
Path == Seq(Names) \ {NoPath}

LEMMA StringsAreNames ==
  Seq(STRING) \subseteq Seq(Names)
BY SeqMonotonic DEF Names

(***************************************************************************)
(* Prefixes.                                                               *)
(***************************************************************************)

LEMMA PathLength ==
  ASSUME NEW p \in Path
  PROVE  Len(p) \in Nat /\ Len(p) > 0 /\ (Len(p) = 1 \/ Len(p) > 1) /\ ~(Len(p) = 1 /\ Len(p) > 1)
<1>1. PICK n \in Nat : n = Len(p)
  BY DEF Path
<1>2. n # 0
  BY <1>1 DEF Path, NoPath
<1>3. n > 0 /\ (n = 1 \/ n > 1) /\ ~(n = 1 /\ n > 1)
  BY <1>2
<1> QED
  BY <1>1, <1>3

\* A directory's names are the first of those of what lies in it.
LEMMA PrefixNames ==
  ASSUME NEW p \in Seq(Names), NEW d \in Seq(Names)
  PROVE  WinHasPrefix(p, d) <=>
           d # NoPath /\ Len(d) <= Len(p) /\ \A i \in 1..Len(d) : d[i] = p[i]
<1>1. SubSeq(d, 1, Len(d)) = d
  BY SubSeqFull
<1>2. CASE Len(d) <= Len(p)
  <2> DEFINE s == SubSeq(p, 1, Len(d))
  <2>1. /\ s \in Seq(Names) /\ Len(s) = Len(d)
        /\ \A i \in 1..Len(d) : s[i] = p[i]
    <3>1. Len(d) \in Nat /\ Len(p) \in Nat /\ \A i \in 1..Len(d) : p[i] \in Names
      BY <1>2
    <3>2. /\ s \in Seq(Names)
          /\ Len(s) = IF 1 <= Len(d) THEN Len(d) - 1 + 1 ELSE 0
          /\ \A i \in 1..Len(d) - 1 + 1 : s[i] = p[1 + i - 1]
      BY <3>1, SubSeqProperties
    <3> QED
      BY <3>1, <3>2
  <2>2. s = d <=> \A i \in 1..Len(d) : d[i] = p[i]
    <3> HIDE DEF s
    <3>1. ASSUME \A i \in 1..Len(d) : d[i] = p[i] PROVE s = d
      BY <2>1, <3>1, SeqEqual
    <3> QED
      BY <2>1, <3>1
  <2> QED
    BY <1>1, <1>2, <2>2 DEF WinHasPrefix, IsPrefix
<1> QED
  BY <1>2 DEF WinHasPrefix, IsPrefix

LEMMA PrefixRefl ==
  ASSUME NEW p \in Path
  PROVE  WinHasPrefix(p, p)
BY PrefixNames DEF Path

LEMMA PrefixTrans ==
  ASSUME NEW p \in Seq(Names), NEW d \in Seq(Names), NEW e \in Seq(Names),
         WinHasPrefix(p, d), WinHasPrefix(d, e)
  PROVE  WinHasPrefix(p, e)
<1>1. /\ d # NoPath /\ Len(d) <= Len(p) /\ \A i \in 1..Len(d) : d[i] = p[i]
      /\ e # NoPath /\ Len(e) <= Len(d) /\ \A i \in 1..Len(e) : e[i] = d[i]
  BY PrefixNames
<1>2. Len(p) \in Nat /\ Len(d) \in Nat /\ Len(e) \in Nat
  OBVIOUS
<1>3. Len(e) <= Len(p) /\ \A i \in 1..Len(e) : e[i] = p[i]
  BY <1>1, <1>2
<1> QED
  BY <1>1, <1>3, PrefixNames

\* Two directories of one path lie in each other, one way or the other.
LEMMA PrefixTotal ==
  ASSUME NEW p \in Seq(Names), NEW d \in Seq(Names), NEW e \in Seq(Names),
         WinHasPrefix(p, d), WinHasPrefix(p, e)
  PROVE  WinHasPrefix(d, e) \/ WinHasPrefix(e, d)
<1>1. /\ d # NoPath /\ Len(d) <= Len(p) /\ \A i \in 1..Len(d) : d[i] = p[i]
      /\ e # NoPath /\ Len(e) <= Len(p) /\ \A i \in 1..Len(e) : e[i] = p[i]
  BY PrefixNames
<1>2. Len(p) \in Nat /\ Len(d) \in Nat /\ Len(e) \in Nat
  OBVIOUS
<1>3. CASE Len(e) <= Len(d)
  <2>1. \A i \in 1..Len(e) : e[i] = d[i]
    BY <1>1, <1>2, <1>3
  <2> QED
    BY <1>1, <1>3, <2>1, PrefixNames
<1>4. CASE Len(d) <= Len(e)
  <2>1. \A i \in 1..Len(d) : d[i] = e[i]
    BY <1>1, <1>2, <1>4
  <2> QED
    BY <1>1, <1>4, <2>1, PrefixNames
<1> QED
  BY <1>2, <1>3, <1>4

LEMMA PrefixAntisym ==
  ASSUME NEW p \in Seq(Names), NEW d \in Seq(Names),
         WinHasPrefix(p, d), WinHasPrefix(d, p)
  PROVE  p = d
<1>1. Len(d) <= Len(p) /\ Len(p) <= Len(d) /\ \A i \in 1..Len(d) : d[i] = p[i]
  BY PrefixNames
<1>2. Len(p) \in Nat /\ Len(d) \in Nat
  OBVIOUS
<1> QED
  BY <1>1, <1>2, SeqEqual

\* What a path lies in, other than itself, is what its directory lies in.
LEMMA PrefixOfFront ==
  ASSUME NEW p \in Path
  PROVE  /\ Front(p) \in Seq(Names) /\ Len(Front(p)) = Len(p) - 1
         /\ Len(p) > 1 => WinHasPrefix(p, Front(p))
         /\ \A d \in Seq(Names) : WinHasPrefix(p, d) /\ d # p => WinHasPrefix(Front(p), d)
<1>1. Len(p) \in Nat /\ Len(p) > 0 /\ p \in Seq(Names) /\ \A i \in 1..Len(p) - 1 : p[i] \in Names
  BY PathLength DEF Path
<1>2. /\ Front(p) \in Seq(Names)
      /\ Len(Front(p)) = IF 1 <= Len(p) - 1 THEN Len(p) - 1 - 1 + 1 ELSE 0
      /\ \A i \in 1..Len(p) - 1 - 1 + 1 : Front(p)[i] = p[1 + i - 1]
  BY <1>1, SubSeqProperties DEF Front
<1>3. Len(Front(p)) = Len(p) - 1 /\ \A i \in 1..Len(p) - 1 : Front(p)[i] = p[i]
  <2>1. Len(Front(p)) = Len(p) - 1
    <3>1. CASE Len(p) = 1
      BY <1>2, <3>1
    <3>2. CASE Len(p) > 1
      BY <1>1, <1>2, <3>2
    <3> QED
      BY <3>1, <3>2, PathLength
  <2>2. ASSUME NEW i \in 1..Len(p) - 1 PROVE Front(p)[i] = p[i]
    <3>1. i \in 1..Len(p) - 1 - 1 + 1 /\ 1 + i - 1 = i
      BY <1>1
    <3> QED
      BY <1>2, <3>1
  <2> QED
    BY <2>1, <2>2
<1>4. Len(p) > 1 => WinHasPrefix(p, Front(p))
  <2>1. Len(p) > 1 => Front(p) # NoPath
    BY <1>1, <1>3 DEF NoPath
  <2> QED
    BY <1>1, <1>2, <1>3, <2>1, PrefixNames
<1>5. ASSUME NEW d \in Seq(Names), WinHasPrefix(p, d), d # p
      PROVE  WinHasPrefix(Front(p), d)
  <2>1. d # NoPath /\ Len(d) <= Len(p) /\ \A i \in 1..Len(d) : d[i] = p[i]
    BY <1>1, <1>5, PrefixNames
  <2>2. Len(d) \in Nat
    OBVIOUS
  <2>3. Len(d) # Len(p)
    BY <1>1, <1>5, <2>1, SeqEqual
  <2>4. Len(d) <= Len(Front(p)) /\ \A i \in 1..Len(d) : d[i] = Front(p)[i]
    BY <1>1, <1>3, <2>1, <2>2, <2>3
  <2> QED
    BY <1>2, <2>1, <2>4, PrefixNames
<1> QED
  BY <1>2, <1>3, <1>4, <1>5

LEMMA FrontOfInside ==
  ASSUME NEW dir \in Path, NEW n \in Seq(Names), Len(n) = 1
  PROVE  Len(dir \o n) > 1 /\ Front(dir \o n) = dir
<1> DEFINE p == dir \o n
<1>1. /\ dir \in Seq(Names) /\ Len(dir) \in Nat /\ Len(dir) > 0
      /\ p \in Seq(Names) /\ Len(p) = Len(dir) + 1
      /\ \A i \in 1..Len(dir) : p[i] = dir[i]
  <2>1. dir \in Seq(Names) /\ Len(dir) \in Nat /\ Len(dir) > 0
    BY PathLength DEF Path
  <2>2. /\ p \in Seq(Names) /\ Len(p) = Len(dir) + Len(n)
        /\ \A i \in 1..Len(dir) + Len(n) : p[i] = IF i <= Len(dir) THEN dir[i] ELSE n[i - Len(dir)]
    BY <2>1, ConcatProperties
  <2> HIDE DEF p
  <2>3. Len(p) = Len(dir) + 1
    BY <2>2
  <2>4. \A i \in 1..Len(dir) : p[i] = dir[i]
    BY <2>1, <2>2
  <2> QED
    BY <2>1, <2>2, <2>3, <2>4
<1> HIDE DEF p
<1>2. Len(p) > 1 /\ Len(p) - 1 = Len(dir) /\ p \in Path
  <2>1. Len(p) > 1
    BY <1>1
  <2> QED
    BY <1>1, <2>1 DEF Path, NoPath
<1>3. Front(p) \in Seq(Names) /\ Len(Front(p)) = Len(dir) /\ Front(p) = SubSeq(p, 1, Len(dir))
  BY <1>2, PrefixOfFront DEF Front
<1>4. \A i \in 1..Len(dir) : Front(p)[i] = dir[i]
  BY <1>1, <1>3
<1> QED
  BY <1>1, <1>2, <1>3, <1>4, SeqEqual DEF p

(***************************************************************************)
(* Grants.                                                                 *)
(***************************************************************************)

\* What Translate takes for covered is what the container lets through.
LEMMA CoveredIsGranted ==
  ASSUME NEW q \in Seq(Names), NEW G \in SUBSET Path
  PROVE  CoveredBy(q, G) <=> GrantedBy(q, G)
<1>1. ASSUME NEW g \in G
      PROVE  (IF WinIsVolumeRoot(g) THEN q = g ELSE WinHasPrefix(q, g))
               <=> q = g \/ (Len(g) > 1 /\ WinHasPrefix(q, g))
  <2>1. WinHasPrefix(g, g)
    BY PrefixRefl
  <2>2. WinIsVolumeRoot(g) <=> ~(Len(g) > 1)
    BY PathLength DEF WinIsVolumeRoot
  <2>3. q = g => WinHasPrefix(q, g)
    BY <2>1
  <2> QED
    BY <2>2, <2>3, Zenon
<1> QED
  BY <1>1 DEF CoveredBy, GrantedBy

\* A grant that opens a path in a directory covers the directory or lies in it.
LEMMA GrantOrInside ==
  ASSUME NEW q \in Seq(Names), NEW d \in Seq(Names), NEW g \in Path,
         WinHasPrefix(q, d), GrantedBy(q, {g})
  PROVE  GrantedBy(d, {g}) \/ (g # d /\ WinHasPrefix(g, d))
<1>1. g \in Seq(Names) /\ WinHasPrefix(q, g)
  BY PrefixRefl DEF GrantedBy, Path
<1>2. WinHasPrefix(d, g) \/ WinHasPrefix(g, d)
  BY <1>1, PrefixTotal
<1>3. CASE q = g
  BY <1>3 DEF GrantedBy
<1>4. CASE Len(g) > 1
  BY <1>2, <1>4 DEF GrantedBy
<1> QED
  BY <1>3, <1>4 DEF GrantedBy

\* A grant opens what lies in a directory it opens, unless that is a volume's root.
LEMMA GrantGoesDown ==
  ASSUME NEW q \in Seq(Names), NEW d \in Seq(Names), NEW G \in SUBSET Path,
         WinHasPrefix(q, d), Len(d) > 1, GrantedBy(d, G)
  PROVE  GrantedBy(q, G)
<1>1. PICK g \in G : d = g \/ (Len(g) > 1 /\ WinHasPrefix(d, g))
  BY DEF GrantedBy
<1>2. Len(g) > 1 /\ WinHasPrefix(q, g)
  BY <1>1, PrefixTrans DEF Path
<1> QED
  BY <1>2 DEF GrantedBy

LEMMA GrantOfOne ==
  ASSUME NEW q, NEW G
  PROVE  GrantedBy(q, G) <=> \E g \in G : GrantedBy(q, {g})
BY DEF GrantedBy

(***************************************************************************)
(* Requests and the machines they ask.                                     *)
(***************************************************************************)
Asking == UNION {Requests[i] : i \in 1..Len(Requests)}
AskedFor(r, raws) == IF r.mode = "dry run" THEN {} ELSE Norm(r, raws)
Kept(h) == {Profile(h)} \union {Canon(h, p) : p \in h.temp \union h.protected}

LEMMA AskedOfHost ==
  ASSUME NEW r \in Asking
  PROVE  r.host \in DOMAIN Hosts
BY RequestAssumption DEF Asking

LEMMA HostIs ==
  ASSUME NEW r \in Asking
  PROVE  LET h == Host(r)
         IN  /\ {h.userProfile, h.systemRoot, h.documents, h.appData} \subseteq Seq(Names)
             /\ h.temp \union h.protected \subseteq Seq(Names)
             /\ h.exists \union h.searched \subseteq Path
             /\ \A p \in DOMAIN h.longPath : h.longPath[p] \in Path
             /\ \A p \in h.exists : Len(p) > 1 =>
                  Front(p) \in h.exists /\ Canon(h, Front(p)) = Front(Canon(h, p))
             /\ \A d \in Kept(h) \ {NoPath} :
                  ~IsPrefix(d, h.systemRoot) /\ ~IsPrefix(h.systemRoot, d)
             /\ h.numCPU \in Nat \ {0}
<1> DEFINE h == Host(r)
<1>1. h = Hosts[r.host] /\ r.host \in DOMAIN Hosts
  BY AskedOfHost DEF Host
<1> HIDE DEF h
<1>2. /\ {h.userProfile, h.systemRoot, h.documents, h.appData} \subseteq Seq(Names)
      /\ h.temp \union h.protected \subseteq Seq(Names)
      /\ h.exists \union h.searched \subseteq Path
      /\ \A p \in DOMAIN h.longPath : h.longPath[p] \in Path
  BY <1>1, HostAssumption, StringsAreNames DEF Path
<1>3. /\ \A p \in h.exists : Len(p) > 1 =>
           Front(p) \in h.exists /\ Canon(h, Front(p)) = Front(Canon(h, p))
      /\ \A d \in Kept(h) \ {NoPath} :
           ~IsPrefix(d, h.systemRoot) /\ ~IsPrefix(h.systemRoot, d)
      /\ h.numCPU \in Nat \ {0}
  <2>1. \A p \in h.exists : Len(p) > 1 =>
           Front(p) \in h.exists /\ Canon(h, Front(p)) = Front(Canon(h, p))
    BY <1>1, HostAssumption
  <2>2. \A d \in Kept(h) \ {NoPath} :
           ~IsPrefix(d, h.systemRoot) /\ ~IsPrefix(h.systemRoot, d)
    <3>1. Kept(h) = {Profile(Hosts[r.host])} \union
                      {Canon(Hosts[r.host], p) : p \in Hosts[r.host].temp \union Hosts[r.host].protected}
      BY <1>1 DEF Kept
    <3> HIDE DEF Kept
    <3> QED
      BY <1>1, <3>1, HostAssumption
  <2>3. h.numCPU \in Nat \ {0}
    BY <1>1, HostAssumption
  <2> QED
    BY <2>1, <2>2, <2>3
<1> QED
  BY <1>2, <1>3 DEF h

LEMMA CanonIs ==
  ASSUME NEW r \in Asking, NEW p \in Seq(Names)
  PROVE  /\ Canon(Host(r), p) \in Seq(Names)
         /\ Canon(Host(r), p) = NoPath <=> p = NoPath
BY HostIs DEF Canon, Path

\* What is granted is the long name of a path that exists.
LEMMA AskedAre ==
  ASSUME NEW r \in Asking, NEW raws
  PROVE  AskedFor(r, raws) \in SUBSET Path
<1>1. \A p \in Host(r).exists : Canon(Host(r), p) \in Path
  BY CanonIs, HostIs DEF Path
<1> QED
  BY <1>1 DEF AskedFor, Norm

LEMMA AskedUnion ==
  ASSUME NEW r, NEW A, NEW B
  PROVE  AskedFor(r, A \union B) = AskedFor(r, A) \union AskedFor(r, B)
BY DEF AskedFor, Norm

LEMMA NameInside ==
  ASSUME NEW S, NEW dir \in Seq(S), NEW n \in S
  PROVE  dir \o <<n>> \in Seq(S)
OBVIOUS

LEMMA PersistenceIs ==
  ASSUME NEW r \in Asking, NEW p \in PersistencePaths(Host(r))
  PROVE  Canon(Host(r), p) \in Seq(Names)
<1> DEFINE h == Host(r)
<1>1. h.documents \in Seq(Names) /\ h.userProfile \in Seq(Names) /\ h.appData \in Seq(Names)
  BY HostIs
<1>2. \A dir \in Seq(Names) : \A n \in {"Documents", "PowerShell", "npm", ".ssh"} :
        dir \o <<n>> \in Seq(Names)
  <2>1. \A S : \A dir \in Seq(S), n \in S : dir \o <<n>> \in Seq(S)
    BY NameInside
  <2>2. {"Documents", "PowerShell", "npm", ".ssh"} \subseteq Names
    BY DEF Names
  <2> QED
    BY <2>1, <2>2, Zenon
<1>3. p \in Seq(Names)
  <2>1. CASE p = h.userProfile \o <<"Documents">> \o <<"PowerShell">>
    BY <1>1, <1>2, <2>1
  <2>2. CASE \E dir \in {h.documents, h.appData, h.userProfile} :
               p \in {dir \o <<n>> : n \in {"PowerShell", "npm", ".ssh"}}
    BY <1>1, <1>2, <2>2
  <2> QED
    BY <2>1, <2>2 DEF PersistencePaths
<1> QED
  BY <1>3, CanonIs

\* No path leads into a directory that is kept from the command and into the
\* system's.
LEMMA KeptFromSystem ==
  ASSUME NEW r \in Asking, NEW d \in Kept(Host(r)), NEW q \in Seq(Names), WinHasPrefix(q, d)
  PROVE  ~WinHasPrefix(q, Host(r).systemRoot)
<1>1. d \in Seq(Names) /\ Host(r).systemRoot \in Seq(Names) /\ d # NoPath
  BY CanonIs, HostIs DEF Kept, Profile, WinHasPrefix
<1>2. ~WinHasPrefix(d, Host(r).systemRoot) /\ ~WinHasPrefix(Host(r).systemRoot, d)
  BY <1>1, HostIs DEF WinHasPrefix
<1> QED
  BY <1>1, <1>2, PrefixTotal

(***************************************************************************)
(* The program and its directory.                                          *)
(***************************************************************************)
Ready(r) == r \in Asking /\ ~Unusable(r)
Program(r) == Canon(Host(r), r.config.program)
Around(r) == Canon(Host(r), Front(r.config.program))
Cwd(r) == Canon(Host(r), r.config.cwd)

LEMMA ProgramIs ==
  ASSUME NEW r, Ready(r)
  PROVE  /\ Cwd(r) \in Path /\ Program(r) \in Path /\ Around(r) \in Path
         /\ Around(r) = Front(Program(r)) /\ WinHasPrefix(Program(r), Around(r))
         /\ ProgramGrant(r) = IF BroadDirectory(Around(r), Host(r)) THEN Program(r) ELSE Around(r)
         /\ ProgramGrant(r) \in Path
<1> DEFINE c == r.config
<1>1. /\ r \in Asking /\ c.cwd \in Path /\ c.program \in Path
      /\ c.program \in Host(r).exists /\ Len(c.program) > 1
  BY RequestAssumption, StringsAreNames DEF Ready, Unusable, Asking, Path
<1>2. Front(c.program) \in Host(r).exists /\ Around(r) = Front(Program(r))
  BY <1>1, HostIs DEF Around, Program
<1>3. Cwd(r) \in Path /\ Program(r) \in Path /\ Around(r) \in Path
  BY <1>1, <1>2, CanonIs, HostIs DEF Cwd, Program, Around, Path
<1>4. Len(Program(r)) > 1
  <2>1. Len(Around(r)) = Len(Program(r)) - 1 /\ Len(Around(r)) > 0 /\ Len(Program(r)) \in Nat
    BY <1>2, <1>3, PrefixOfFront, PathLength
  <2> QED
    BY <2>1
<1>5. WinHasPrefix(Program(r), Around(r))
  BY <1>2, <1>3, <1>4, PrefixOfFront
<1>6. ProgramGrant(r) = IF BroadDirectory(Around(r), Host(r)) THEN Program(r) ELSE Around(r)
  BY DEF ProgramGrant, Around, Program
<1> QED
  BY <1>2, <1>3, <1>5, <1>6

(***************************************************************************)
(* What Translate makes of a request, stage by stage.                      *)
(***************************************************************************)
IsPlan(p) ==
  /\ DOMAIN p = {"read", "write", "denied", "undeniable", "network", "memory", "cpu", "processes",
                 "unenforced", "broadened"}
  /\ DOMAIN p.network = {"egress", "to", "ports", "inbound", "hostLoopback", "proxy"}

\* Persistence locations to deny: those a grant covers and none names.
Persistent(r) ==
  IF ~r.config.denyPersistenceWrites THEN {}
  ELSE {d \in {Canon(Host(r), p) : p \in PersistencePaths(Host(r))} :
          /\ CoveredBy(d, AskedFor(r, r.config.writePaths))
          /\ d \notin AskedFor(r, r.config.writePaths)}

LEMMA CoveredByMore ==
  ASSUME NEW p, NEW G, NEW H, CoveredBy(p, G), G \subseteq H
  PROVE  CoveredBy(p, H)
BY DEF CoveredBy

LEMMA CoveredByItself ==
  ASSUME NEW p \in Path, NEW G, p \in G
  PROVE  CoveredBy(p, G)
BY PrefixRefl DEF CoveredBy

LEMMA FilesAre ==
  ASSUME NEW r, Ready(r)
  PROVE  LET p == TranslateFiles(r)
             write == AskedFor(r, r.config.writePaths)
             read == AskedFor(r, r.config.readPaths) \ write
             protected == {Canon(Host(r), d) : d \in Host(r).protected \intersect Host(r).exists}
         IN  /\ IsPlan(p) /\ p.network = NoPlan.network /\ p.broadened = {}
             /\ p.write = write
             /\ read \subseteq p.read /\ p.read \subseteq read \union {ProgramGrant(r), Cwd(r)}
             /\ \A g \in {ProgramGrant(r), Cwd(r)} :
                  WinHasPrefix(g, Host(r).systemRoot) \/ CoveredBy(g, p.write \union p.read)
             /\ p.denied = (Persistent(r) \intersect Host(r).exists)
                  \union {d \in protected : CoveredBy(d, write \union p.read)
                                            \/ GrantsInside(d, write \union p.read)}
             /\ p.undeniable = Persistent(r) \ Host(r).exists
             /\ p.undeniable # {} => "persistence" \in p.unenforced
<1> DEFINE write == AskedFor(r, r.config.writePaths)
           asked == AskedFor(r, r.config.readPaths) \ write
           With(some, g) == IF WinHasPrefix(g, Host(r).systemRoot) \/ CoveredBy(g, write \union some)
                            THEN some ELSE some \union {g}
           started == With(asked, ProgramGrant(r))
           read == With(started, Cwd(r))
           protected == {d \in {Canon(Host(r), p) : p \in Host(r).protected \intersect Host(r).exists} :
                           CoveredBy(d, write \union read) \/ GrantsInside(d, write \union read)}
           p == TranslateFiles(r)
<1>1. p = [NoPlan EXCEPT !.read = read, !.write = write,
             !.denied = (Persistent(r) \intersect Host(r).exists) \union protected,
             !.undeniable = Persistent(r) \ Host(r).exists,
             !.unenforced = IF Persistent(r) \subseteq Host(r).exists THEN {} ELSE {"persistence"}]
  BY DEF TranslateFiles, AskedFor, Persistent, Cwd
<1>2. ASSUME NEW some, NEW g \in Path
      PROVE  /\ some \subseteq With(some, g) /\ With(some, g) \subseteq some \union {g}
             /\ WinHasPrefix(g, Host(r).systemRoot) \/ CoveredBy(g, write \union With(some, g))
  <2>1. CoveredBy(g, write \union (some \union {g}))
    BY CoveredByItself
  <2> QED
    BY <2>1
<1>3. /\ asked \subseteq read /\ read \subseteq asked \union {ProgramGrant(r), Cwd(r)}
      /\ \A g \in {ProgramGrant(r), Cwd(r)} :
           WinHasPrefix(g, Host(r).systemRoot) \/ CoveredBy(g, write \union read)
  <2> HIDE DEF With, write, asked
  <2>1. /\ asked \subseteq started /\ started \subseteq asked \union {ProgramGrant(r)}
        /\ WinHasPrefix(ProgramGrant(r), Host(r).systemRoot) \/ CoveredBy(ProgramGrant(r), write \union started)
    BY <1>2, ProgramIs
  <2>2. /\ started \subseteq read /\ read \subseteq started \union {Cwd(r)}
        /\ WinHasPrefix(Cwd(r), Host(r).systemRoot) \/ CoveredBy(Cwd(r), write \union read)
    BY <1>2, ProgramIs
  <2>3. CoveredBy(ProgramGrant(r), write \union started) => CoveredBy(ProgramGrant(r), write \union read)
    BY <2>2, CoveredByMore
  <2> QED
    BY <2>1, <2>2, <2>3
<1> HIDE DEF With, write, asked, started, read, protected, p
<1>4. /\ IsPlan(p) /\ p.network = NoPlan.network /\ p.broadened = {}
      /\ p.read = read /\ p.write = write
      /\ p.denied = (Persistent(r) \intersect Host(r).exists) \union protected
      /\ p.undeniable = Persistent(r) \ Host(r).exists
      /\ p.undeniable # {} => "persistence" \in p.unenforced
  BY <1>1 DEF NoPlan, IsPlan
<1> QED
  BY <1>3, <1>4 DEF write, asked, protected, p

FullPlan(r) ==
  CollectUnenforced(r, TranslateLimits(r, TranslateNetwork(r, TranslateFiles(r))))

LEMMA NetworkKeeps ==
  ASSUME NEW r, Ready(r)
  PROVE  LET f == TranslateFiles(r)
             p == TranslateNetwork(r, f)
         IN  /\ IsPlan(p)
             /\ p.read = f.read /\ p.write = f.write
             /\ p.denied = f.denied /\ p.undeniable = f.undeniable
             /\ f.unenforced \subseteq p.unenforced
             /\ p.network =
                  IF r.mode = "dry run" \/ r.config.disableNetwork THEN NoPlan.network
                  ELSE IF HasProxy(r)
                  THEN [NoPlan.network EXCEPT !.inbound = TRUE, !.hostLoopback = TRUE, !.proxy = TRUE]
                  ELSE DirectEgress(r).network
<1> DEFINE f == TranslateFiles(r)
           p == TranslateNetwork(r, f)
<1>1. IsPlan(f) /\ f.network = NoPlan.network
  BY FilesAre
<1> HIDE DEF f
<1>2. CASE r.mode = "dry run" \/ r.config.disableNetwork
  BY <1>1, <1>2 DEF TranslateNetwork, f
<1>3. CASE ~(r.mode = "dry run" \/ r.config.disableNetwork) /\ HasProxy(r)
  <2>1. p = [f EXCEPT !.network = [@ EXCEPT !.inbound = TRUE, !.hostLoopback = TRUE, !.proxy = TRUE],
                      !.unenforced = @ \union IF r.config.urlPathRules THEN {"url rules"} ELSE {}]
    BY <1>3 DEF TranslateNetwork
  <2> QED
    BY <1>1, <1>3, <2>1 DEF IsPlan, f
<1>4. CASE ~(r.mode = "dry run" \/ r.config.disableNetwork) /\ ~HasProxy(r)
  <2>1. p = [f EXCEPT !.network = DirectEgress(r).network, !.broadened = DirectEgress(r).broadened]
    BY <1>4 DEF TranslateNetwork
  <2>2. DOMAIN DirectEgress(r).network = {"egress", "to", "ports", "inbound", "hostLoopback", "proxy"}
    BY DEF DirectEgress
  <2> QED
    BY <1>1, <1>4, <2>1, <2>2 DEF IsPlan, f
<1> QED
  BY <1>2, <1>3, <1>4

LEMMA LimitsKeep ==
  ASSUME NEW r, NEW p, IsPlan(p)
  PROVE  LET q == TranslateLimits(r, p)
         IN  /\ IsPlan(q)
             /\ q.read = p.read /\ q.write = p.write
             /\ q.denied = p.denied /\ q.undeniable = p.undeniable
             /\ q.network = p.network /\ q.unenforced = p.unenforced
             /\ q.memory = MemoryBytes(r.config) /\ q.cpu = CPURate(r.config, Host(r))
             /\ q.processes = ActiveProcesses(r.config)
BY DEF TranslateLimits, IsPlan

LEMMA CollectKeeps ==
  ASSUME NEW r, NEW p, IsPlan(p)
  PROVE  LET q == CollectUnenforced(r, p)
         IN  /\ q.read = p.read /\ q.write = p.write
             /\ q.denied = p.denied /\ q.undeniable = p.undeniable
             /\ q.network = p.network /\ p.unenforced \subseteq q.unenforced
             /\ q.memory = p.memory /\ q.cpu = p.cpu /\ q.processes = p.processes
BY DEF CollectUnenforced, IsPlan

LEMMA CollectTells ==
  ASSUME NEW r, NEW p, IsPlan(p)
  PROVE  LET q == CollectUnenforced(r, p)
             c == r.config
         IN  /\ c.blockFork /\ c.isBatch => "fork" \in q.unenforced
             /\ ~ExecLimited(c) /\ (\E e \in c.blockExec : ~ExecBlocked(e, r, q))
                  => "blockExec" \in q.unenforced
             /\ c.protectHome # "off" /\ Host(r).userProfile # NoPath =>
                  \/ "home" \in q.unenforced
                  \/ GrantsReaching(Profile(Host(r)),
                       q.write \union IF c.protectHome = "tmpfs" THEN q.read ELSE {}) = {}
             /\ c.privateTmp =>
                  \/ "tmp" \in q.unenforced
                  \/ \A t \in Host(r).temp :
                       GrantsReaching(Canon(Host(r), t), q.write \union q.read) = {}
<1> DEFINE c == r.config
           home == GrantsReaching(Profile(Host(r)),
                     p.write \union IF c.protectHome = "tmpfs" THEN p.read ELSE {})
           temp == UNION {GrantsReaching(Canon(Host(r), t), p.write \union p.read) : t \in Host(r).temp}
           told(x) == CASE x = "fork" -> c.blockFork /\ c.isBatch
                        [] x = "allowExec" -> c.allowExec /\ ~ExecLimited(c)
                        [] x = "blockExec" -> ~ExecLimited(c) /\ \E e \in c.blockExec : ~ExecBlocked(e, r, p)
                        [] x = "home" -> c.protectHome # "off" /\ Host(r).userProfile # NoPath /\ home # {}
                        [] x = "tmp" -> c.privateTmp /\ temp # {}
                        [] x = "linux" -> c.linuxOnly
           all == {x \in {"fork", "allowExec", "blockExec", "home", "tmp", "linux"} : told(x)}
           q == CollectUnenforced(r, p)
<1>1. q = [p EXCEPT !.unenforced = @ \union all]
  BY DEF CollectUnenforced
<1>2. /\ c.blockFork /\ c.isBatch => "fork" \in all
      /\ ~ExecLimited(c) /\ (\E e \in c.blockExec : ~ExecBlocked(e, r, p)) => "blockExec" \in all
      /\ c.protectHome # "off" /\ Host(r).userProfile # NoPath /\ home # {} => "home" \in all
      /\ c.privateTmp /\ temp # {} => "tmp" \in all
  <2> HIDE DEF home, temp
  <2>1. /\ told("fork") <=> c.blockFork /\ c.isBatch
        /\ told("blockExec") <=> ~ExecLimited(c) /\ \E e \in c.blockExec : ~ExecBlocked(e, r, p)
        /\ told("home") <=> c.protectHome # "off" /\ Host(r).userProfile # NoPath /\ home # {}
        /\ told("tmp") <=> c.privateTmp /\ temp # {}
    OBVIOUS
  <2> QED
    BY <2>1
<1> HIDE DEF all, q
<1>3. q.read = p.read /\ q.write = p.write /\ all \subseteq q.unenforced
  BY <1>1 DEF IsPlan
<1>4. \A e : ExecBlocked(e, r, q) <=> ExecBlocked(e, r, p)
  BY <1>3 DEF ExecBlocked, Readable
<1>5. /\ home = GrantsReaching(Profile(Host(r)),
                  q.write \union IF c.protectHome = "tmpfs" THEN q.read ELSE {})
      /\ temp = UNION {GrantsReaching(Canon(Host(r), t), q.write \union q.read) : t \in Host(r).temp}
  BY <1>3
<1> HIDE DEF home, temp
<1>6. temp = {} =>
        \A t \in Host(r).temp : GrantsReaching(Canon(Host(r), t), q.write \union q.read) = {}
  BY <1>5
<1>7. /\ c.blockFork /\ c.isBatch => "fork" \in q.unenforced
      /\ ~ExecLimited(c) /\ (\E e \in c.blockExec : ~ExecBlocked(e, r, q)) => "blockExec" \in q.unenforced
  BY <1>2, <1>3, <1>4
<1>8. /\ c.protectHome # "off" /\ Host(r).userProfile # NoPath => "home" \in q.unenforced \/ home = {}
      /\ c.privateTmp => "tmp" \in q.unenforced \/ temp = {}
  BY <1>2, <1>3
<1> QED
  BY <1>5, <1>6, <1>7, <1>8 DEF q

(***************************************************************************)
(* A plan that runs: the whole translation of its request, with nothing    *)
(* left to tell if the run is strict.                                      *)
(***************************************************************************)
RunsAsPlanned ==
  /\ Ready(request) /\ plan = FullPlan(request)
  /\ request.config.strict => plan.unenforced \union plan.broadened = {}

Granted == plan.write \union plan.read
KeptShut == {Canon(Host(request), d) : d \in Host(request).protected \intersect Host(request).exists}

LEMMA StagesKeep ==
  ASSUME RunsAsPlanned
  PROVE  LET f == TranslateFiles(request)
             c == request.config
         IN  /\ plan.read = f.read /\ plan.write = f.write
             /\ plan.denied = f.denied /\ plan.undeniable = f.undeniable
             /\ f.unenforced \subseteq plan.unenforced
             /\ plan.network = TranslateNetwork(request, f).network
             /\ plan.memory = MemoryBytes(c) /\ plan.cpu = CPURate(c, Host(request))
             /\ plan.processes = ActiveProcesses(c)
<1> DEFINE f == TranslateFiles(request)
           n == TranslateNetwork(request, f)
           l == TranslateLimits(request, n)
<1>1. plan = CollectUnenforced(request, l)
  BY DEF RunsAsPlanned, FullPlan
<1>2. /\ IsPlan(n) /\ f.unenforced \subseteq n.unenforced
      /\ n.read = f.read /\ n.write = f.write /\ n.denied = f.denied /\ n.undeniable = f.undeniable
  BY NetworkKeeps DEF RunsAsPlanned
<1> HIDE DEF n
<1>3. /\ IsPlan(l) /\ l.unenforced = n.unenforced /\ l.network = n.network
      /\ l.read = n.read /\ l.write = n.write /\ l.denied = n.denied /\ l.undeniable = n.undeniable
      /\ l.memory = MemoryBytes(request.config) /\ l.cpu = CPURate(request.config, Host(request))
      /\ l.processes = ActiveProcesses(request.config)
  BY <1>2, LimitsKeep
<1> HIDE DEF l
<1>4. /\ l.unenforced \subseteq plan.unenforced /\ plan.network = l.network
      /\ plan.read = l.read /\ plan.write = l.write
      /\ plan.denied = l.denied /\ plan.undeniable = l.undeniable
      /\ plan.memory = l.memory /\ plan.cpu = l.cpu /\ plan.processes = l.processes
  BY <1>1, <1>3, CollectKeeps
<1> QED
  BY <1>2, <1>3, <1>4 DEF n

\* What is told, and that what is told ends a strict run.
LEMMA ToldIs ==
  ASSUME RunsAsPlanned
  PROVE  LET c == request.config
             profile == Profile(Host(request))
         IN  /\ \A x \in plan.unenforced : Told(x)
             /\ c.blockFork /\ c.isBatch => Told("fork")
             /\ Told("blockExec") \/ ExecLimited(c) \/ \A e \in c.blockExec : ExecBlocked(e, request, plan)
             /\ c.protectHome # "off" /\ Host(request).userProfile # NoPath =>
                  \/ Told("home")
                  \/ GrantsReaching(profile,
                       plan.write \union IF c.protectHome = "tmpfs" THEN plan.read ELSE {}) = {}
             /\ c.privateTmp =>
                  \/ Told("tmp")
                  \/ \A t \in Host(request).temp : GrantsReaching(Canon(Host(request), t), Granted) = {}
<1> DEFINE n == TranslateNetwork(request, TranslateFiles(request))
           l == TranslateLimits(request, n)
<1>1. plan = CollectUnenforced(request, l)
  BY DEF RunsAsPlanned, FullPlan
<1>2. IsPlan(l)
  BY NetworkKeeps, LimitsKeep DEF RunsAsPlanned
<1>3. \A x \in plan.unenforced : Told(x)
  BY DEF Told, RunsAsPlanned
<1> HIDE DEF l
<1> QED
  BY <1>1, <1>2, <1>3, CollectTells DEF Granted

LEMMA FilesOfPlan ==
  ASSUME RunsAsPlanned
  PROVE  LET c == request.config
         IN  /\ plan.write = Asked(c.writePaths)
             /\ Asked(c.readPaths) \subseteq Granted
             /\ plan.read \subseteq Asked(c.readPaths) \union {ProgramGrant(request), Cwd(request)}
             /\ \A g \in {ProgramGrant(request), Cwd(request)} :
                  WinHasPrefix(g, Host(request).systemRoot) \/ GrantedBy(g, Granted)
             /\ plan.write \in SUBSET Path /\ Granted \in SUBSET Path
             /\ plan.denied = (Persistent(request) \intersect Host(request).exists)
                  \union {d \in KeptShut : GrantedBy(d, Granted) \/ GrantsInside(d, Granted)}
             /\ plan.undeniable = Persistent(request) \ Host(request).exists
             /\ plan.undeniable # {} => Told("persistence")
<1> DEFINE r == request
           f == TranslateFiles(r)
           write == AskedFor(r, r.config.writePaths)
           read == AskedFor(r, r.config.readPaths) \ write
<1>1. /\ plan.read = f.read /\ plan.write = f.write /\ plan.denied = f.denied
      /\ plan.undeniable = f.undeniable /\ f.unenforced \subseteq plan.unenforced
  BY StagesKeep
<1>2. /\ f.write = write
      /\ read \subseteq f.read /\ f.read \subseteq read \union {ProgramGrant(r), Cwd(r)}
      /\ \A g \in {ProgramGrant(r), Cwd(r)} :
           WinHasPrefix(g, Host(r).systemRoot) \/ CoveredBy(g, f.write \union f.read)
      /\ f.denied = (Persistent(r) \intersect Host(r).exists)
           \union {d \in KeptShut : CoveredBy(d, write \union f.read) \/ GrantsInside(d, write \union f.read)}
      /\ f.undeniable = Persistent(r) \ Host(r).exists
      /\ f.undeniable # {} => "persistence" \in f.unenforced
  BY FilesAre DEF RunsAsPlanned, KeptShut
<1>3. write = Asked(r.config.writePaths) /\ AskedFor(r, r.config.readPaths) = Asked(r.config.readPaths)
  BY DEF Asked, AskedFor
<1>4. /\ write \in SUBSET Path /\ read \in SUBSET Path
      /\ ProgramGrant(r) \in Path /\ Cwd(r) \in Path /\ KeptShut \subseteq Seq(Names)
  BY AskedAre, ProgramIs, CanonIs, HostIs DEF RunsAsPlanned, Ready, KeptShut
<1> HIDE DEF f, write, read
<1>5. Granted = write \union f.read /\ write \in SUBSET Path /\ Granted \in SUBSET Path
  BY <1>1, <1>2, <1>4 DEF Granted
<1>6. \A q \in Seq(Names) : CoveredBy(q, Granted) <=> GrantedBy(q, Granted)
  BY <1>5, CoveredIsGranted
<1>7. \A g \in {ProgramGrant(r), Cwd(r)} :
        WinHasPrefix(g, Host(r).systemRoot) \/ GrantedBy(g, Granted)
  BY <1>2, <1>4, <1>5, <1>6 DEF Path
<1>8. plan.denied = (Persistent(r) \intersect Host(r).exists)
        \union {d \in KeptShut : GrantedBy(d, Granted) \/ GrantsInside(d, Granted)}
  BY <1>1, <1>2, <1>4, <1>5, <1>6
<1>9. plan.undeniable # {} => Told("persistence")
  BY <1>1, <1>2, ToldIs
<1>10. Asked(r.config.readPaths) \subseteq Granted
  BY <1>2, <1>3, <1>5 DEF read
<1> QED
  BY <1>1, <1>2, <1>3, <1>5, <1>7, <1>8, <1>9, <1>10 DEF read

(***************************************************************************)
(* The promises about files.                                               *)
(***************************************************************************)

\* What is readable is in the system root or granted, unless it is shut out.
LEMMA ReadableIs ==
  ASSUME NEW q, MayRead(q) \/ MayWrite(q)
  PROVE  /\ ~ShutOut(q)
         /\ WinHasPrefix(q, Host(request).systemRoot) \/ \E g \in Granted : GrantedBy(q, {g})
BY DEF MayRead, MayWrite, GrantedBy, Granted

LEMMA ShutIsHeld ==
  ASSUME RunsAsPlanned
  PROVE  ProtectedStayShut
<1> SUFFICES ASSUME NEW d \in KeptShut, NEW q \in Seq(Names), WinHasPrefix(q, d),
                    MayRead(q) \/ MayWrite(q)
             PROVE  FALSE
  BY WordAssumption, StringsAreNames DEF ProtectedStayShut, KeptShut, PathsIn
<1>1. d \in Kept(Host(request)) /\ d \in Seq(Names) /\ request \in Asking
  BY CanonIs, HostIs DEF KeptShut, Kept, RunsAsPlanned, Ready
<1>2. PICK g \in Granted : GrantedBy(q, {g})
  BY <1>1, ReadableIs, KeptFromSystem
<1>3. GrantedBy(d, {g}) \/ (g # d /\ WinHasPrefix(g, d))
  BY <1>1, <1>2, FilesOfPlan, GrantOrInside
<1>4. GrantedBy(d, Granted) \/ GrantsInside(d, Granted)
  BY <1>3 DEF GrantsInside, GrantedBy
<1>5. d \in plan.denied
  BY <1>4, FilesOfPlan
<1> QED
  BY <1>5, ReadableIs DEF ShutOut

LEMMA NothingElseHeld ==
  ASSUME RunsAsPlanned
  PROVE  NothingElseGranted
<1> DEFINE r == request
           asked == Asked(r.config.readPaths \union r.config.writePaths) \union {Cwd(r)}
<1>1. r \in Asking /\ Ready(r)
  BY DEF RunsAsPlanned, Ready
<1>2. Granted \subseteq asked \union {ProgramGrant(r)}
  <2>1. Asked(r.config.readPaths \union r.config.writePaths)
          = Asked(r.config.readPaths) \union Asked(r.config.writePaths)
    BY AskedUnion DEF Asked, AskedFor
  <2> QED
    BY <2>1, FilesOfPlan DEF Granted
<1>3. ASSUME NEW q \in WinPaths, MayWrite(q)
      PROVE  GrantedBy(q, Asked(r.config.writePaths))
  BY <1>3, FilesOfPlan DEF MayWrite
<1>4. ASSUME NEW q \in WinPaths, MayRead(q), ~WinHasPrefix(q, Host(r).systemRoot), q # Program(r)
      PROVE  GrantedBy(q, asked) \/ (GrantedBy(q, {Around(r)}) /\ ~WinHasPrefix(Profile(Host(r)), Around(r)))
  <2>1. PICK g \in Granted : GrantedBy(q, {g})
    BY <1>4, ReadableIs
  <2>2. CASE g \in asked
    BY <2>1, <2>2 DEF GrantedBy
  <2>3. CASE g = ProgramGrant(r)
    <3>1. ~GrantedBy(q, {Program(r)})
      BY <1>1, <1>4, RequestAssumption DEF GrantedBy, Program, Asking, Ready, Unusable
    <3>2. g = Around(r) /\ ~BroadDirectory(Around(r), Host(r))
      BY <1>1, <2>1, <2>3, <3>1, ProgramIs
    <3>3. ~WinHasPrefix(Profile(Host(r)), Around(r))
      <4>1. CASE Host(r).userProfile # NoPath
        BY <3>2, <4>1 DEF BroadDirectory
      <4>2. CASE Host(r).userProfile = NoPath
        <5>1. Profile(Host(r)) = NoPath
          BY <1>1, <4>2, CanonIs, HostIs DEF Profile
        <5>2. Len(NoPath) = 0 /\ NoPath \in Seq(Names) /\ Around(r) \in Path
          BY <1>1, ProgramIs DEF NoPath
        <5>3. ~(Len(Around(r)) <= Len(NoPath))
          BY <5>2, PathLength
        <5> QED
          BY <5>1, <5>2, <5>3, PrefixNames DEF Path
      <4> QED
        BY <4>1, <4>2
    <3> QED
      BY <2>1, <3>2, <3>3
  <2> QED
    BY <1>2, <2>1, <2>2, <2>3
<1> QED
  BY <1>3, <1>4 DEF NothingElseGranted, Program, Around, Cwd

LEMMA AskedIsHeld ==
  ASSUME RunsAsPlanned
  PROVE  GrantsHold
<1> SUFFICES ASSUME NEW w \in Asked(request.config.writePaths), ~MayWrite(w)
             PROVE  \/ \E d \in Host(request).protected : WinHasPrefix(w, Canon(Host(request), d))
                    \/ /\ request.config.denyPersistenceWrites
                       /\ \E d \in plan.denied :
                            WinHasPrefix(w, d) /\ GrantedBy(d, Asked(request.config.writePaths))
  BY DEF GrantsHold
<1>1. GrantedBy(w, plan.write) /\ plan.write = AskedFor(request, request.config.writePaths)
  BY FilesOfPlan DEF GrantedBy, Asked, AskedFor
<1>2. PICK d \in plan.denied : WinHasPrefix(w, d)
  BY <1>1 DEF MayWrite, ShutOut
<1>3. CASE d \in KeptShut
  BY <1>2, <1>3 DEF KeptShut
<1>4. CASE d \in Persistent(request)
  <2>1. request.config.denyPersistenceWrites /\ CoveredBy(d, plan.write)
    BY <1>1, <1>4 DEF Persistent
  <2>2. d \in Seq(Names)
    BY <1>4, PersistenceIs DEF RunsAsPlanned, Ready, Persistent
  <2>3. GrantedBy(d, plan.write)
    BY <2>1, <2>2, FilesOfPlan, CoveredIsGranted
  <2> QED
    BY <1>2, <2>1, <2>3, FilesOfPlan
<1> QED
  BY <1>2, <1>3, <1>4, FilesOfPlan

LEMMA StartIsHeld ==
  ASSUME RunsAsPlanned
  PROVE  CommandStarts
<1> DEFINE r == request
           Open(q) == WinHasPrefix(q, Host(r).systemRoot) \/ GrantedBy(q, Granted)
<1>1. r \in Asking /\ Ready(r) /\ Host(r).systemRoot \in Seq(Names) /\ Granted \in SUBSET Path
  BY FilesOfPlan, HostIs DEF RunsAsPlanned, Ready
<1>2. Open(Cwd(r)) /\ Open(ProgramGrant(r))
  BY FilesOfPlan
<1>3. Open(Program(r))
  <2>1. CASE BroadDirectory(Around(r), Host(r))
    BY <1>1, <1>2, <2>1, ProgramIs
  <2>2. CASE ~BroadDirectory(Around(r), Host(r))
    <3>1. /\ Around(r) \in Path /\ Program(r) \in Seq(Names)
          /\ WinHasPrefix(Program(r), Around(r)) /\ Open(Around(r))
      BY <1>1, <1>2, <2>2, ProgramIs DEF Path
    <3>2. Len(Around(r)) > 1
      BY <2>2, <3>1, PathLength DEF BroadDirectory, WinIsVolumeRoot
    <3>3. CASE WinHasPrefix(Around(r), Host(r).systemRoot)
      BY <1>1, <3>1, <3>3, PrefixTrans DEF Path
    <3>4. CASE GrantedBy(Around(r), Granted)
      BY <1>1, <3>1, <3>2, <3>4, GrantGoesDown DEF Path
    <3> QED
      BY <3>1, <3>3, <3>4
  <2> QED
    BY <2>1, <2>2
<1> QED
  BY <1>2, <1>3 DEF CommandStarts, MayRead, Granted, Program, Cwd

\* A grant that opens a path in a directory reaches the directory.
LEMMA GrantReaches ==
  ASSUME NEW q \in Seq(Names), NEW d \in Seq(Names), NEW G \in SUBSET Path, NEW g \in G,
         WinHasPrefix(q, d), GrantedBy(q, {g})
  PROVE  GrantsReaching(d, G) # {}
<1>1. GrantedBy(d, {g}) \/ WinHasPrefix(g, d)
  BY GrantOrInside
<1>2. GrantedBy(d, {g}) => CoveredBy(d, {g})
  BY CoveredIsGranted
<1> QED
  BY <1>1, <1>2 DEF GrantsReaching

LEMMA PersistenceIsHeld ==
  ASSUME RunsAsPlanned
  PROVE  PersistenceHeld
<1> SUFFICES ASSUME request.config.denyPersistenceWrites,
                    NEW p \in PersistencePaths(Host(request)),
                    NEW q \in WinPaths, WinHasPrefix(q, Canon(Host(request), p)), MayWrite(q),
                    \A g \in plan.write : ~(WinHasPrefix(g, Canon(Host(request), p)) /\ WinHasPrefix(q, g))
             PROVE  Canon(Host(request), p) \in plan.undeniable /\ Told("persistence")
  BY DEF PersistenceHeld, PathsIn
<1> DEFINE d == Canon(Host(request), p)
<1>1. /\ q \in Seq(Names) /\ d \in Path /\ plan.write \in SUBSET Path
      /\ plan.write = AskedFor(request, request.config.writePaths)
  BY WordAssumption, StringsAreNames, PersistenceIs, FilesOfPlan
     DEF Path, WinHasPrefix, RunsAsPlanned, Ready, Asked, AskedFor
<1> HIDE DEF d
<1>2. PICK g \in plan.write : GrantedBy(q, {g})
  BY DEF MayWrite, GrantedBy
<1>3. g \in Path /\ WinHasPrefix(q, g)
  BY <1>1, <1>2, PrefixRefl DEF GrantedBy
<1>4. GrantedBy(d, {g})
  BY <1>1, <1>2, <1>3, GrantOrInside DEF Path, d
<1>5. CoveredBy(d, plan.write)
  BY <1>1, <1>4, CoveredIsGranted DEF GrantedBy, Path
<1>6. d \notin plan.write
  BY <1>1, PrefixRefl DEF d
<1>7. d \in Persistent(request)
  BY <1>1, <1>5, <1>6 DEF Persistent, d
<1>8. ~ShutOut(q)
  BY DEF MayWrite
<1>9. d \notin plan.denied
  BY <1>8 DEF ShutOut, d
<1> QED
  BY <1>7, <1>9, FilesOfPlan DEF d

LEMMA HomeAndTmpAreHeld ==
  ASSUME RunsAsPlanned
  PROVE  HomeAndTmpHeld
<1> DEFINE r == request
           c == r.config
           lost == IF c.protectHome = "tmpfs" THEN plan.read ELSE {}
<1>1. r \in Asking /\ WinPaths \subseteq Seq(Names)
  BY WordAssumption, StringsAreNames DEF RunsAsPlanned, Ready
<1>2. ASSUME c.protectHome # "off", Host(r).userProfile # NoPath,
             NEW q \in PathsIn(Profile(Host(r))),
             MayWrite(q) \/ (c.protectHome = "tmpfs" /\ MayRead(q))
      PROVE  Told("home")
  <2> DEFINE d == Profile(Host(r))
  <2>1. q \in Seq(Names) /\ WinHasPrefix(q, d) /\ d \in Kept(Host(r)) /\ d \in Seq(Names)
    BY <1>1, <1>2, CanonIs, HostIs DEF PathsIn, Kept, Profile
  <2> HIDE DEF d
  <2>2. \E g \in plan.write \union lost : GrantedBy(q, {g})
    <3>1. CASE MayWrite(q)
      BY <3>1 DEF MayWrite, GrantedBy
    <3>2. CASE c.protectHome = "tmpfs" /\ MayRead(q)
      BY <1>1, <2>1, <3>2, KeptFromSystem DEF MayRead, GrantedBy
    <3> QED
      BY <1>2, <3>1, <3>2
  <2>3. plan.write \union lost \in SUBSET Path
    BY FilesOfPlan DEF Granted
  <2>4. GrantsReaching(d, plan.write \union lost) # {}
    BY <2>1, <2>2, <2>3, GrantReaches
  <2> QED
    BY <1>2, <2>4, ToldIs DEF d
<1>3. ASSUME c.privateTmp, NEW t \in Host(r).temp,
             NEW q \in PathsIn(Canon(Host(r), t)), MayRead(q) \/ MayWrite(q)
      PROVE  Told("tmp")
  <2> DEFINE d == Canon(Host(r), t)
  <2>1. q \in Seq(Names) /\ WinHasPrefix(q, d) /\ d \in Kept(Host(r)) /\ d \in Seq(Names)
    BY <1>1, CanonIs, HostIs DEF PathsIn, Kept
  <2> HIDE DEF d
  <2>2. \E g \in Granted : GrantedBy(q, {g})
    BY <1>1, <1>3, <2>1, ReadableIs, KeptFromSystem
  <2>3. GrantsReaching(d, Granted) # {}
    BY <2>1, <2>2, GrantReaches, FilesOfPlan
  <2> QED
    BY <1>3, <2>3, ToldIs DEF d
<1> QED
  BY <1>2, <1>3 DEF HomeAndTmpHeld

(***************************************************************************)
(* The promises about limits and programs.                                 *)
(***************************************************************************)
LEMMA NumbersAre ==
  ASSUME NEW r \in Asking
  PROVE  /\ r.config.maxMemory \in Nat /\ r.config.maxCPU \in Nat /\ r.config.maxProcesses \in Nat
         /\ Host(r).numCPU \in Nat \ {0}
BY RequestAssumption, HostIs DEF Asking

LEMMA LeastOfTwo ==
  ASSUME NEW S \in SUBSET Nat, NEW a \in Nat, NEW b \in Nat, S \in {{a}, {b}, {a, b}}
  PROVE  LET least == CHOOSE n \in S : \A m \in S : n <= m
         IN  least \in S /\ \A m \in S : least <= m
<1>1. \E n \in S : \A m \in S : n <= m
  <2>1. CASE a \in S /\ (a <= b \/ b \notin S)
    BY <2>1
  <2>2. CASE b \in S /\ (b <= a \/ a \notin S)
    BY <2>2
  <2> QED
    BY <2>1, <2>2
<1> QED
  BY <1>1

LEMMA ProcessesAre ==
  ASSUME NEW r \in Asking
  PROVE  LET c == r.config
             n == ActiveProcesses(c)
         IN  /\ ExecLimited(c) => n = 2
             /\ c.maxProcesses > 0 => n \in 2..(c.maxProcesses + 1 + IF c.isBatch THEN 2 ELSE 0)
<1> DEFINE c == r.config
           shim == IF c.isBatch THEN 2 ELSE 0
           one == 1 + shim
           most == c.maxProcesses + shim
           asked == (IF c.blockFork THEN {one} ELSE {})
                      \union (IF c.maxProcesses > 0 THEN {most} ELSE {})
           least == CHOOSE n \in asked : \A m \in asked : n <= m
<1>1. ActiveProcesses(c) = IF asked = {} THEN 0 ELSE 1 + least
  BY DEF ActiveProcesses
<1>2. shim \in {0, 2} /\ c.maxProcesses \in Nat
  BY NumbersAre
<1> HIDE DEF shim
<1>3. one \in Nat /\ most \in Nat /\ asked \in SUBSET Nat
  BY <1>2
<1>4. ASSUME asked # {} PROVE least \in asked /\ \A m \in asked : least <= m
  <2>1. asked \in {{one}, {most}, {one, most}}
    BY <1>4
  <2> HIDE DEF asked, one, most
  <2> QED
    BY <1>3, <2>1, LeastOfTwo
<1>5. ASSUME ExecLimited(c) PROVE ActiveProcesses(c) = 2
  <2>1. one \in asked /\ shim = 0 /\ \A m \in asked : m >= 1
    BY <1>2, <1>5 DEF ExecLimited, shim
  <2>2. asked # {} /\ least \in asked /\ least \in Nat /\ least <= one /\ least >= 1
    <3> HIDE DEF asked, least, one
    <3> QED
      BY <1>3, <1>4, <2>1
  <2> HIDE DEF asked, least
  <2> QED
    BY <1>1, <2>1, <2>2
<1>6. ASSUME c.maxProcesses > 0 PROVE ActiveProcesses(c) \in 2..(c.maxProcesses + 1 + shim)
  <2>1. most \in asked /\ \A m \in asked : m >= 1
    BY <1>2, <1>6
  <2>2. asked # {} /\ least \in asked /\ least \in Nat /\ least <= most /\ least >= 1
    <3> HIDE DEF asked, least, most
    <3> QED
      BY <1>3, <1>4, <2>1
  <2> HIDE DEF asked, least
  <2> QED
    BY <1>1, <1>2, <2>2
<1> QED
  BY <1>5, <1>6 DEF shim

LEMMA ExecIsHeld ==
  ASSUME RunsAsPlanned
  PROVE  ExecHeld
<1> DEFINE r == request
           c == r.config
           h == Host(r)
           Files(e) == CASE e.form = "name" -> {dir \o e.names : dir \in h.searched}
                         [] e.form = "absolute" -> {e.names}
                         [] e.form = "any" -> {c.program}
                         [] OTHER -> {}
<1>1. CASE ExecLimited(c)
  <2>1. plan.processes = 2 /\ ~c.isBatch
    BY <1>1, ProcessesAre, StagesKeep DEF RunsAsPlanned, Ready, ExecLimited
  <2> QED
    BY <2>1 DEF ExecHeld
<1>2. CASE Told("blockExec")
  BY <1>2 DEF ExecHeld
<1>3. CASE \A e \in c.blockExec : ExecBlocked(e, r, plan)
  <2> SUFFICES ASSUME NEW e \in c.blockExec, NEW q \in Files(e), q \in h.exists, MayRead(Canon(h, q))
               PROVE  e.form = "name" /\ Canon(h, q) \in Granted
    BY DEF ExecHeld, Granted
  <2>1. /\ r \in Asking /\ q \in Path /\ Canon(h, q) \in Path
        /\ Granted \in SUBSET Path /\ h.systemRoot \in Seq(Names)
    BY HostIs, CanonIs, FilesOfPlan DEF RunsAsPlanned, Ready, Path
  <2>2. /\ e.form \in {"empty", "posix", "any", "absolute", "name"} /\ e.names \in Seq(STRING)
        /\ e.form = "name" => Len(e.names) = 1
        /\ e.form = "name" => \A dir \in h.searched : Canon(h, dir \o e.names) # h.systemRoot
    BY <2>1, RequestAssumption DEF Asking
  <2>3. \A p \in Seq(Names) :
          Readable(r, plan, p) <=> WinHasPrefix(p, h.systemRoot) \/ GrantedBy(p, Granted)
    BY <2>1, CoveredIsGranted DEF Readable, Granted
  <2>4. MayRead(Canon(h, q)) => Readable(r, plan, Canon(h, q))
    BY <2>1, <2>3 DEF MayRead, Granted, Path
  <2>5. CASE e.form = "absolute"
    BY <1>3, <2>4, <2>5 DEF ExecBlocked
  <2>6. CASE e.form = "name"
    <3>1. PICK dir \in h.searched : q = dir \o e.names
      BY <2>6
    <3>2. ~Readable(r, plan, Canon(h, dir))
      BY <1>3, <2>6, <3>1 DEF ExecBlocked
    <3>3. dir \in Path /\ e.names \in Seq(Names)
      BY <2>1, <2>2, HostIs, StringsAreNames
    <3>4. Len(q) > 1 /\ Front(q) = dir
      BY <2>2, <2>6, <3>1, <3>3, FrontOfInside
    <3>5. Canon(h, dir) = Front(Canon(h, q)) /\ Canon(h, dir) \in Seq(Names)
      BY <2>1, <3>3, <3>4, HostIs, CanonIs DEF Path
    <3>6. \A d \in Seq(Names) : WinHasPrefix(Canon(h, q), d) /\ d # Canon(h, q) =>
            WinHasPrefix(Canon(h, dir), d)
      BY <2>1, <3>5, PrefixOfFront
    <3>7. Canon(h, q) # h.systemRoot
      BY <2>2, <2>6, <3>1
    <3>8. ~WinHasPrefix(Canon(h, q), h.systemRoot)
      BY <2>1, <2>3, <3>2, <3>5, <3>6, <3>7
    <3>9. PICK g \in Granted : Canon(h, q) = g \/ (Len(g) > 1 /\ WinHasPrefix(Canon(h, q), g))
      BY <2>1, <2>3, <2>4, <3>8 DEF GrantedBy, Path
    <3>10. ASSUME g # Canon(h, q) PROVE FALSE
      <4>1. Len(g) > 1 /\ WinHasPrefix(Canon(h, dir), g)
        BY <2>1, <3>6, <3>9, <3>10 DEF Path
      <4>2. GrantedBy(Canon(h, dir), Granted)
        BY <4>1 DEF GrantedBy
      <4> QED
        BY <2>3, <3>2, <3>5, <4>2
    <3> QED
      BY <2>6, <3>9, <3>10
  <2> QED
    BY <1>3, <2>2, <2>5, <2>6 DEF ExecBlocked
<1> QED
  BY <1>1, <1>2, <1>3, ToldIs

LEMMA MemoryIs ==
  ASSUME NEW r \in Asking, r.config.maxMemory > 0
  PROVE  /\ MemoryBytes(r.config) > 0
         /\ MemoryBytes(r.config) >= MinOf(MaxWord, r.config.maxMemory * MemoryUnit)
<1> DEFINE m == r.config.maxMemory
           asked == m * MemoryUnit
<1>1. /\ m \in Nat \ {0} /\ MaxWord \in Nat \ {0} /\ LauncherMemory \in Nat
      /\ MemoryUnit \in Nat \ {0}
  BY NumbersAre, WordAssumption
<1> HIDE DEF m
<1>2. asked \in Nat \ {0}
  BY <1>1
<1>3. MemoryBytes(r.config) \in {MaxWord, asked + LauncherMemory}
  BY <1>1 DEF MemoryBytes, m
<1>4. MinOf(MaxWord, asked) <= MaxWord /\ MinOf(MaxWord, asked) <= asked
  BY <1>1, <1>2 DEF MinOf
<1>5. MinOf(MaxWord, asked) \in Nat
  BY <1>1, <1>2 DEF MinOf
<1> HIDE DEF asked
<1> QED
  BY <1>1, <1>2, <1>3, <1>4, <1>5 DEF asked, m

LEMMA CeilDivIs ==
  ASSUME NEW a \in Nat \ {0}, NEW b \in Nat \ {0}
  PROVE  /\ CeilDiv(a, b) \in Nat \ {0}
         /\ b * CeilDiv(a, b) >= a /\ b * (CeilDiv(a, b) - 1) < a
<1> DEFINE x == a + b - 1
           c == x \div b
<1>1. x \in Nat /\ x >= b
  OBVIOUS
<1> HIDE DEF x
<1>2. c \in Nat /\ b * c <= x /\ x < b * c + b
  BY <1>1
<1> HIDE DEF c
<1>3. c # 0
  BY <1>1, <1>2
<1>4. b * c >= a /\ b * c - b < a
  BY <1>2 DEF x
<1>5. b * (c - 1) = b * c - b
  BY <1>2
<1> QED
  BY <1>2, <1>3, <1>4, <1>5 DEF CeilDiv, c, x

LEMMA CPUIs ==
  ASSUME NEW r \in Asking
  PROVE  LET c == r.config
             cpu == CPURate(c, Host(r))
             cores == 10 * Host(r).numCPU
         IN  /\ c.maxCPU > 0 /\ cpu = 0 => c.maxCPU >= cores
             /\ cpu > 0 => /\ cpu * cores >= c.maxCPU * CPUScale
                           /\ (cpu - 1) * cores < c.maxCPU * CPUScale
<1> DEFINE c == r.config
           cpu == CPURate(c, Host(r))
           cores == 10 * Host(r).numCPU
           a == c.maxCPU * CPUScale
<1>1. c.maxCPU \in Nat /\ CPUScale \in Nat \ {0} /\ cores \in Nat \ {0}
  BY NumbersAre, WordAssumption
<1>2. CASE c.maxCPU = 0 \/ c.maxCPU >= cores
  BY <1>1, <1>2 DEF CPURate
<1>3. CASE ~(c.maxCPU = 0 \/ c.maxCPU >= cores)
  <2>1. cpu = CeilDiv(a, cores)
    BY <1>3 DEF CPURate
  <2>2. a \in Nat \ {0}
    BY <1>1, <1>3
  <2> HIDE DEF a, cores, cpu
  <2>3. cpu \in Nat \ {0} /\ cores * cpu >= a /\ cores * (cpu - 1) < a
    BY <1>1, <2>1, <2>2, CeilDivIs
  <2>4. cores * cpu = cpu * cores /\ cores * (cpu - 1) = (cpu - 1) * cores
    BY <1>1, <2>3
  <2> QED
    BY <2>3, <2>4 DEF a, cores, cpu
<1> QED
  BY <1>2, <1>3

LEMMA CPUIsNat ==
  ASSUME NEW r \in Asking
  PROVE  CPURate(r.config, Host(r)) \in Nat
<1> DEFINE cores == 10 * Host(r).numCPU
           a == r.config.maxCPU * CPUScale
<1>1. r.config.maxCPU \in Nat /\ CPUScale \in Nat \ {0} /\ cores \in Nat \ {0}
  BY NumbersAre, WordAssumption
<1>2. ASSUME r.config.maxCPU # 0 PROVE CeilDiv(a, cores) \in Nat
  <2>1. a \in Nat \ {0}
    BY <1>1, <1>2
  <2> HIDE DEF a, cores
  <2> QED
    BY <1>1, <2>1, CeilDivIs
<1> QED
  BY <1>2 DEF CPURate

LEMMA LimitsAreHeld ==
  ASSUME RunsAsPlanned
  PROVE  LimitsHeld
<1> DEFINE c == request.config
           n == Host(request).numCPU
<1>1. request \in Asking
  BY DEF RunsAsPlanned, Ready
<1>2. /\ plan.memory = MemoryBytes(c) /\ plan.cpu = CPURate(c, Host(request))
      /\ plan.processes = ActiveProcesses(c)
  BY StagesKeep
<1>3. c.maxMemory > 0 => plan.memory > 0 /\ plan.memory >= MinOf(MaxWord, c.maxMemory * MemoryUnit)
  BY <1>1, <1>2, MemoryIs
<1>4. /\ c.maxCPU > 0 /\ plan.cpu = 0 => c.maxCPU >= 10 * n
      /\ plan.cpu > 0 => /\ plan.cpu * (10 * n) >= c.maxCPU * CPUScale
                         /\ (plan.cpu - 1) * (10 * n) < c.maxCPU * CPUScale
  BY <1>1, <1>2, CPUIs
<1>5. plan.cpu \in Nat /\ n \in Nat
  BY <1>1, <1>2, CPUIsNat, NumbersAre
<1>6. plan.cpu * 10 * n = plan.cpu * (10 * n) /\ (plan.cpu - 1) * 10 * n = (plan.cpu - 1) * (10 * n)
  BY <1>5
<1>7. c.blockFork => Told("fork") \/ plan.processes = 2
  BY <1>1, <1>2, ToldIs, ProcessesAre DEF ExecLimited
<1>8. c.maxProcesses > 0 =>
        plan.processes \in 2..(c.maxProcesses + 1 + IF c.isBatch THEN 2 ELSE 0)
  BY <1>1, <1>2, ProcessesAre
<1> HIDE DEF n
<1> QED
  BY <1>3, <1>4, <1>6, <1>7, <1>8 DEF LimitsHeld, n

(***************************************************************************)
(* The promise about the network.                                          *)
(***************************************************************************)

\* The ports that are open: none in the list is all of them.
LEMMA PortsAre ==
  ASSUME NEW c, NEW port \in {80, 443, 8080}
  PROVE  LET opened == IF 0 \in c.allowPorts THEN {} ELSE EgressPorts(c)
             entries == c.allowHosts \union c.allowIPs
             ports == c.allowPorts \intersect 0..MaxPort
         IN  opened = {} \/ port \in opened <=>
               /\ ports # {} => 0 \in ports \/ port \in ports
               /\ ports = {} /\ entries # {} => port \in {80, 443}
<1> DEFINE named == c.allowPorts \intersect 1..MaxPort
           ports == c.allowPorts \intersect 0..MaxPort
           entries == c.allowHosts \union c.allowIPs
<1>1. /\ 0 \in ports <=> 0 \in c.allowPorts
      /\ 0 \notin c.allowPorts => ports = named
      /\ 0 \notin named
  <2>1. MaxPort \in Nat
    BY DEF MaxPort
  <2>2. 0 \in ports <=> 0 \in c.allowPorts
    BY <2>1
  <2>3. 0 \notin c.allowPorts => ports = named
    BY <2>1
  <2>4. 0 \notin named
    BY <2>1
  <2> QED
    BY <2>2, <2>3, <2>4
<1>2. EgressPorts(c) = IF named = {} /\ 0 \notin c.allowPorts /\ entries # {} THEN {80, 443} ELSE named
  BY DEF EgressPorts
<1> HIDE DEF named, ports, entries
<1>3. CASE 0 \in c.allowPorts
  BY <1>1, <1>3 DEF ports
<1>4. CASE 0 \notin c.allowPorts /\ named # {}
  BY <1>1, <1>2, <1>4 DEF ports
<1>5. CASE 0 \notin c.allowPorts /\ named = {}
  BY <1>1, <1>2, <1>5 DEF ports, entries
<1> QED
  BY <1>3, <1>4, <1>5

\* An address that is not the machine's own is among the peers if an entry has it.
LEMMA PeersAre ==
  ASSUME NEW r \in Asking, NEW a \in Publics \union Privates
  PROVE  LET c == r.config
             peers == {p \in Pinned(c) : ~(p \subseteq Loopbacks)}
         IN  a \in UNION peers <=> \E x \in c.allowHosts \union c.allowIPs : a \in x.to
<1> DEFINE c == r.config
           peers == {p \in Pinned(c) : ~(p \subseteq Loopbacks)}
<1>1. /\ \A x \in c.allowHosts : x.to # {} => x.form = "name"
      /\ \A x \in c.allowIPs : x.to # {} => x.form = "range"
  BY RequestAssumption DEF Asking
<1>2. a \notin Loopbacks
  BY WordAssumption
<1>3. ASSUME NEW p \in peers, a \in p
      PROVE  \E x \in c.allowHosts \union c.allowIPs : a \in x.to
  <2> DEFINE named == {x \in c.allowHosts : x.form = "name"}
             ranges == {x \in c.allowIPs : x.form = "range"}
  <2>1. p \in UNION {{{b} : b \in h.to} : h \in named} \/ p \in {i.to : i \in ranges}
    BY <1>3 DEF Pinned
  <2>2. ASSUME p \in UNION {{{b} : b \in h.to} : h \in named}
        PROVE  \E x \in c.allowHosts : a \in x.to
    <3>1. PICK h \in named : p \in {{b} : b \in h.to}
      BY <2>2, Zenon
    <3> QED
      BY <1>3, <3>1
  <2>3. ASSUME p \in {i.to : i \in ranges}
        PROVE  \E x \in c.allowIPs : a \in x.to
    BY <1>3, <2>3
  <2> QED
    BY <2>1, <2>2, <2>3
<1>4. ASSUME NEW x \in c.allowHosts, a \in x.to
      PROVE  a \in UNION peers
  <2>1. {a} \in Pinned(c)
    <3>1. x \in {y \in c.allowHosts : y.form = "name"} /\ {a} \in {{b} : b \in x.to}
      BY <1>1, <1>4
    <3>2. {a} \in UNION {{{b} : b \in h.to} : h \in {y \in c.allowHosts : y.form = "name"}}
      BY <3>1, Zenon
    <3> QED
      BY <3>2 DEF Pinned
  <2> QED
    BY <1>2, <2>1
<1>5. ASSUME NEW x \in c.allowIPs, a \in x.to
      PROVE  a \in UNION peers
  <2>1. x.to \in Pinned(c)
    BY <1>1, <1>5 DEF Pinned
  <2> QED
    BY <1>2, <1>5, <2>1
<1> QED
  BY <1>3, <1>4, <1>5

\* Who is reached on a network, and who should be.
ReachedOn(net, a, port) ==
  /\ net.egress # "deny"
  /\ net.egress = "peers" => a \in net.to
  /\ net.ports = {} \/ port \in net.ports
AskedToReach(c, a, port) ==
  LET entries == c.allowHosts \union c.allowIPs
      ports == c.allowPorts \intersect 0..MaxPort
  IN  /\ entries # {} => \E x \in entries : x.form = "any" \/ a \in x.to
      /\ ports # {} => 0 \in ports \/ port \in ports
      /\ ports = {} /\ entries # {} => port \in {80, 443}

LEMMA DirectIs ==
  ASSUME NEW r \in Asking, NEW a \in Publics \union Privates, NEW port \in {80, 443, 8080}
  PROVE  ReachedOn(DirectEgress(r).network, a, port) <=> AskedToReach(r.config, a, port)
<1> DEFINE c == r.config
           net == DirectEgress(r).network
           entries == c.allowHosts \union c.allowIPs
           ports == c.allowPorts \intersect 0..MaxPort
           opened == IF 0 \in c.allowPorts THEN {} ELSE EgressPorts(c)
           peers == {p \in Pinned(c) : ~(p \subseteq Loopbacks)}
           any == \E x \in entries : x.form = "any"
           has == \E x \in entries : a \in x.to
           fits == opened = {} \/ port \in opened
           asked == /\ ports # {} => 0 \in ports \/ port \in ports
                    /\ ports = {} /\ entries # {} => port \in {80, 443}
<1>1. /\ net.egress = CASE (any \/ ~(entries # {})) /\ opened = {} -> "allow"
                        [] (any \/ ~(entries # {})) /\ opened # {} -> "ports"
                        [] entries # {} /\ ~any /\ peers # {} -> "peers"
                        [] entries # {} /\ ~any /\ peers = {} -> "deny"
      /\ net.to = UNION peers /\ net.ports = opened
  BY DEF DirectEgress
<1>2. fits <=> asked
  BY PortsAre
<1>3. a \in UNION peers <=> has
  BY PeersAre
<1>4. (\E x \in entries : x.form = "any" \/ a \in x.to) <=> any \/ has
  OBVIOUS
<1>5. peers = {} => ~(a \in UNION peers)
  OBVIOUS
<1>6. any \/ has => entries # {}
  OBVIOUS
<1> HIDE DEF net, entries, ports, opened, peers, any, has
<1>7. CASE any \/ entries = {}
  <2>1. net.egress \in {"allow", "ports"}
    BY <1>1, <1>7
  <2> QED
    BY <1>1, <1>2, <1>4, <1>7, <2>1 DEF ReachedOn, AskedToReach, net, entries, ports, any
<1>8. CASE entries # {} /\ ~any
  <2>1. net.egress = IF peers = {} THEN "deny" ELSE "peers"
    BY <1>1, <1>8
  <2> QED
    BY <1>1, <1>2, <1>3, <1>4, <1>5, <1>8, <2>1 DEF ReachedOn, AskedToReach, net, entries, ports, any
<1> QED
  BY <1>7, <1>8

NoDirectEgress == plan.network.proxy \/ request.config.disableNetwork \/ request.mode = "dry run"
ReachesAsAsked ==
  \A a \in Publics \union Privates, port \in {80, 443, 8080} :
    Reaches(a, port) <=> AskedToReach(request.config, a, port)

LEMMA EgressMeans ==
  EgressAsAsked <=> IF NoDirectEgress THEN plan.network.egress = "deny" ELSE ReachesAsAsked
BY DEF EgressAsAsked, AskedToReach, NoDirectEgress, ReachesAsAsked

LEMMA EgressIsHeld ==
  ASSUME RunsAsPlanned
  PROVE  EgressAsAsked
<1> DEFINE r == request
           c == r.config
           net == plan.network
<1>1. r \in Asking /\ Ready(r)
  BY DEF RunsAsPlanned, Ready
<1>2. net = IF r.mode = "dry run" \/ c.disableNetwork THEN NoPlan.network
            ELSE IF HasProxy(r)
            THEN [NoPlan.network EXCEPT !.inbound = TRUE, !.hostLoopback = TRUE, !.proxy = TRUE]
            ELSE DirectEgress(r).network
  BY <1>1, StagesKeep, NetworkKeeps
<1> HIDE DEF net
<1>3. CASE c.disableNetwork \/ r.mode = "dry run"
  <2>1. net.egress = "deny"
    BY <1>2, <1>3 DEF NoPlan
  <2> QED
    BY <1>3, <2>1, EgressMeans DEF NoDirectEgress, net
<1>4. CASE ~(c.disableNetwork \/ r.mode = "dry run") /\ HasProxy(r)
  <2>1. net.egress = "deny" /\ net.proxy
    BY <1>2, <1>4 DEF NoPlan
  <2> QED
    BY <2>1, EgressMeans DEF NoDirectEgress, net
<1>5. CASE ~(c.disableNetwork \/ r.mode = "dry run") /\ ~HasProxy(r)
  <2>1. net = DirectEgress(r).network /\ net.proxy = FALSE
    BY <1>2, <1>5 DEF DirectEgress
  <2>2. ~NoDirectEgress
    BY <1>5, <2>1 DEF NoDirectEgress, net
  <2>3. ReachesAsAsked
    <3> SUFFICES ASSUME NEW a \in Publics \union Privates, NEW port \in {80, 443, 8080}
                 PROVE  Reaches(a, port) <=> AskedToReach(c, a, port)
      BY DEF ReachesAsAsked
    <3>1. ReachedOn(net, a, port) <=> AskedToReach(c, a, port)
      BY <1>1, <2>1, DirectIs
    <3>2. Reaches(a, port) <=> ReachedOn(net, a, port)
      BY DEF Reaches, ReachedOn, net
    <3> QED
      BY <3>1, <3>2
  <2> QED
    BY <2>2, <2>3, EgressMeans
<1> QED
  BY <1>3, <1>4, <1>5

(***************************************************************************)
(* The invariant: what is planned is the translation of the request, and   *)
(* what runs has nothing to tell if it is strict.                          *)
(***************************************************************************)
PlanInv ==
  /\ request \in Asking
  /\ fate \in {"planned", "runs"} => Ready(request) /\ plan = FullPlan(request)
  /\ fate = "runs" => RunsAsPlanned

\* Every plan that is made is the whole translation of a request that is not
\* refused, and none runs that a strict request does not accept (Translate and
\* runMXC's strict check).
THEOREM PlanInvariant == PlanSpec => []PlanInv
<1>1. PlanInit => PlanInv
  BY DEF PlanInit, PlanInv, Asking
<1>2. PlanInv /\ [PlanNext]_planVars => PlanInv'
  <2> SUFFICES ASSUME PlanInv, [PlanNext]_planVars PROVE PlanInv'
    OBVIOUS
  <2>1. CASE RefuseRequest
    BY <2>1 DEF RefuseRequest, PlanInv
  <2>2. CASE Translate
    BY <2>2 DEF Translate, PlanInv, Ready, FullPlan
  <2>3. CASE AcceptPlan
    BY <2>3 DEF AcceptPlan, PlanInv, RunsAsPlanned
  <2>4. CASE UNCHANGED planVars
    BY <2>4 DEF planVars, PlanInv, RunsAsPlanned
  <2> QED
    BY <2>1, <2>2, <2>3, <2>4 DEF PlanNext
<1> QED
  BY <1>1, <1>2, PTL DEF PlanSpec

\* A plan that runs keeps what its policy asks for, in what the container lets
\* the workload do, or the user was told that it does not: files, the command's
\* start, persistence, profile, programs, egress and limits.
THEOREM PlanKeeps == PlanSpec => []PlanKeepsPromises
<1>1. PlanInv => PlanKeepsPromises
  <2>1. RunsAsPlanned =>
          /\ ProtectedStayShut /\ NothingElseGranted /\ GrantsHold /\ CommandStarts
          /\ PersistenceHeld /\ HomeAndTmpHeld /\ ExecHeld /\ EgressAsAsked /\ LimitsHeld
    BY ShutIsHeld, NothingElseHeld, AskedIsHeld, StartIsHeld, PersistenceIsHeld,
       HomeAndTmpAreHeld, ExecIsHeld, EgressIsHeld, LimitsAreHeld
  <2> QED
    BY <2>1 DEF PlanInv, PlanKeepsPromises
<1> QED
  BY <1>1, PlanInvariant, PTL
=============================================================================
