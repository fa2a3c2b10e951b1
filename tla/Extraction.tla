----------------------------- MODULE Extraction -----------------------------
(***************************************************************************)
(* What extracting one verified archive into a staging directory leaves    *)
(* there, or that it is refused.                                           *)
(*                                                                         *)
(* A path is a sequence of names.  An archive is a format and a sequence   *)
(* of entries; nothing of what a refused archive wrote matters, since its  *)
(* staging directory is removed.                                           *)
(***************************************************************************)
EXTENDS Naturals, Sequences, FiniteSets, SequencesExt

CONSTANTS
    MaxArchiveEntries,  \* InstallLimits::max_archive_entries
    MaxUnpacked         \* InstallLimits::max_unpacked_bytes, in files

ASSUME LimitsAssumption == MaxArchiveEntries \in Nat /\ MaxUnpacked \in Nat

\* What stands for the staging directory of a refused archive.
Refused == {[path |-> <<>>, kind |-> "refused"]}

Parent(path) == SubSeq(path, 1, Len(path) - 1)

\* The directories create_dir_all makes for a path.
Parents(path) == {SubSeq(path, 1, n) : n \in 1 .. Len(path) - 1}

IsSafeRelative(path) == path # <<>> /\ \A n \in DOMAIN path : path[n] # ".."

\* Where a link points, as seen from the staging root; <<>> when it may not.
ResolveArchiveSymlink(link, target) ==
    LET Follow(at, name) ==
            IF at = <<"..">> \/ (name = ".." /\ at = <<>>) THEN <<"..">>
            ELSE IF name = ".." THEN Parent(at) ELSE Append(at, name)
        end == FoldLeft(Follow, Parent(link), target)
    IN IF end = <<"..">> THEN <<>> ELSE end

\* The entries below the stripped components and, in an overlay, below one of
\* the wanted prefixes; their paths are relative to the staging root.
Kept(archive, strip, prefixes) ==
    LET Wanted(path) == prefixes = {} \/ \E prefix \in prefixes : IsPrefix(prefix, path)
        deep == SelectSeq(archive.entries, LAMBDA e : Len(e.path) > strip)
        Cut(e) == [e EXCEPT !.path = SubSeq(e.path, strip + 1, Len(e.path))]
    IN SelectSeq([n \in DOMAIN deep |-> Cut(deep[n])], LAMBDA e : Wanted(e.path))

\* Tar archives made of components may repeat their directories, nothing else.
Duplicate(archive, kept) ==
    \E m, n \in DOMAIN kept :
        /\ m < n
        /\ kept[m].path = kept[n].path
        /\ ~(archive.format = "tar" /\ kept[m].kind = "dir" /\ kept[n].kind = "dir")

OfKind(kept, kind) == {kept[n] : n \in {m \in DOMAIN kept : kept[m].kind = kind}}

\* Links are made when what they point to exists, in as many rounds as that
\* makes new ones possible.  `there` is every path that exists, also through
\* links already made.
LinksMade(links, there) ==
    LET Round(found, n) ==
            LET ready == {l \in links : l.resolved \in found} IN
            found \cup UNION {Parents(l.path) : l \in ready}
                  \cup UNION {{l.path \o SubSeq(path, Len(l.resolved) + 1, Len(path)) :
                                    path \in {f \in found : IsPrefix(l.resolved, f)}} :
                               l \in ready}
    IN FoldLeft(Round, there, [n \in 1 .. Cardinality(links) |-> n])

\* extract_zip and extract_tar, on top of what earlier layers staged.  A
\* staging directory is a set of [path, kind] with the directories in it.
Extract(archive, strip, prefixes, staged) ==
    LET kept == Kept(archive, strip, prefixes)
        files == OfKind(kept, "file")
        links == {[path |-> e.path, to |-> e.to,
                   resolved |-> ResolveArchiveSymlink(e.path, e.to)] :
                      e \in OfKind(kept, "link")}
        dirs == {e.path : e \in OfKind(kept, "dir")}
                    \cup UNION {Parents(e.path) : e \in files}
        before == {s.path : s \in staged}
        solid == {s.path : s \in {t \in staged : t.kind # "dir"}}
        there == before \cup dirs \cup {e.path : e \in files}
    IN IF \/ Len(archive.entries) > MaxArchiveEntries
          \/ \E n \in DOMAIN archive.entries :
                \/ archive.entries[n].kind = "special"
                \/ ~IsSafeRelative(archive.entries[n].path)
          \/ Duplicate(archive, kept)
          \/ Cardinality(files) > MaxUnpacked
          \/ \E e \in files : e.path \in before \cup dirs
          \/ dirs \cap (solid \cup {e.path : e \in files}) # {}
          \/ \E l \in links : l.resolved = <<>> \/ l.path \in there
          \/ ~({l.path : l \in links} \subseteq LinksMade(links, there))
       THEN Refused
       ELSE staged \cup [path : dirs, kind : {"dir"}]
                   \cup [path : {e.path : e \in files}, kind : {"file"}]
                   \cup [path : {l.path : l \in links}, kind : {"link"}]
                   \cup [path : (UNION {Parents(l.path) : l \in links}) \ there,
                         kind : {"dir"}]
=============================================================================
