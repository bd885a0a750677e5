------------------------------- MODULE Pep440 -------------------------------
(***************************************************************************)
(* The version order update-changelog.py uses, and the one spec 9 asks     *)
(* for.  The script parses "## [<ver>]" headers and the new version with   *)
(* packaging.version.Version (PEP 440) after ver.lstrip('v'); the release  *)
(* versions written to CHANGELOG.md are semantic versions.                 *)
(*                                                                         *)
(* A semantic version is a record: its core <<major, minor, patch>>, its   *)
(* pre-release identifiers (the dot-separated part after "-"), and whether *)
(* it carries "+build" metadata.  An identifier is Num(n) or Word(w).      *)
(***************************************************************************)
EXTENDS Naturals, Sequences, SequencesExt

Num(n)  == [num |-> n]
Word(w) == [word |-> w]
IsNum(i) == DOMAIN i = {"num"}

SemVer(core, pre, build) == [core |-> core, pre |-> pre, build |-> build]

\* Mutant of VersionGT: only major.minor.patch are compared.
VersionGTReleaseOnly(a, b) ==
  \E i \in 1..3 : a[i] > b[i] /\ \A j \in 1..(i - 1) : a[j] = b[j]

\* a > b for tuples of the same length, element by element.
VersionGT(a, b) ==
  \E i \in DOMAIN a : a[i] > b[i] /\ \A j \in 1..(i - 1) : a[j] = b[j]

-----------------------------------------------------------------------------
(***************************************************************************)
(* packaging.version.Version(s) and its _cmpkey, for the strings the       *)
(* records above print as.  After the release segment PEP 440 accepts     *)
(* a pre-release "a|b|c|rc|alpha|beta|pre|preview", optionally with a      *)
(* number ("-rc.1" = rc1, "-alpha" = a0), a post-release "-<n>", a dev     *)
(* release "dev" with an optional number, and a local "+label"; anything   *)
(* else ("-snapshot", "-alpha.beta", "-0.3") raises InvalidVersion.        *)
(*                                                                         *)
(* The key is <<major, minor, patch, pre, preN, post, dev, local>>, as in  *)
(* _cmpkey: pre is 0 for a dev-only release (-Infinity), 1..3 for a, b,    *)
(* rc, 4 for none (Infinity); post is 0 for none (-Infinity) else n + 1;   *)
(* dev is NoDev for none (Infinity); local is 0 for none (-Infinity).      *)
(***************************************************************************)
PreLetter == [w \in {"a", "alpha", "b", "beta", "c", "rc", "pre", "preview"} |->
                CASE w \in {"a", "alpha"} -> 1
                  [] w \in {"b", "beta"}  -> 2
                  [] OTHER                -> 3]

NoDev == 1000   \* stands for Infinity: above every dev number of the inputs

\* The (pre, preN, post, dev) part of the key, or {} when Version raises.
Suffix(p) ==
  LET words == {i \in DOMAIN p : ~IsNum(p[i])}
      w1    == IF 1 \in words THEN p[1].word ELSE ""
  IN  CASE p = <<>>
             -> {<<4, 0, 0, NoDev>>}
        [] Len(p) = 1 /\ IsNum(p[1])
             -> {<<4, 0, p[1].num + 1, NoDev>>}
        [] Len(p) \in {1, 2} /\ words = {1} /\ w1 \in DOMAIN PreLetter
             -> {<<PreLetter[w1], IF Len(p) = 2 THEN p[2].num ELSE 0, 0, NoDev>>}
        [] Len(p) \in {1, 2} /\ words = {1} /\ w1 = "dev"
             -> {<<0, 0, 0, IF Len(p) = 2 THEN p[2].num ELSE 0>>}
        [] OTHER
             -> {}

Pep440Valid(v) == Suffix(v.pre) # {}

Pep440Key(v) ==
  LET s == CHOOSE x \in Suffix(v.pre) : TRUE
  IN  v.core \o s \o <<IF v.build THEN 1 ELSE 0>>

-----------------------------------------------------------------------------
(***************************************************************************)
(* Semantic Versioning 2.0.0, section 11: compare the cores numerically;   *)
(* a version without pre-release is greater than one with; pre-releases    *)
(* compare identifier by identifier (numbers numerically, below words,     *)
(* words in ASCII order), a longer list winning a tie; build metadata is   *)
(* ignored.  Words are compared by the rank of AsciiOrder.                 *)
(***************************************************************************)
AsciiOrder == <<"alpha", "beta", "dev", "rc", "snapshot">>

AsciiRank(w) == CHOOSE k \in DOMAIN AsciiOrder : AsciiOrder[k] = w

IdGT(x, y) ==
  IF IsNum(x) THEN IsNum(y) /\ x.num > y.num
  ELSE IsNum(y) \/ AsciiRank(x.word) > AsciiRank(y.word)

PreGT(p, q) ==
  \/ p = <<>> /\ q # <<>>
  \/ /\ p # <<>> /\ q # <<>>
     /\ \/ \E i \in DOMAIN p \cap DOMAIN q :
              IdGT(p[i], q[i]) /\ \A j \in 1..(i - 1) : p[j] = q[j]
        \/ Len(p) > Len(q) /\ SubSeq(p, 1, Len(q)) = q

SemverGT(a, b) ==
  VersionGT(a.core, b.core) \/ (a.core = b.core /\ PreGT(a.pre, b.pre))

=============================================================================
