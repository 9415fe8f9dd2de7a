------------------------ MODULE AdministrativeRegion ------------------------
(***************************************************************************)
(* The register of administrative regions (class AdministrativeRegion in   *)
(* sweden.cpp): a list of names, levels and relations that is sorted when  *)
(* it is first searched or written, and searched by halving.               *)
(***************************************************************************)
EXTENDS Integers, Sequences, FiniteSetsExt, SequencesExt

CONSTANT
  Normal       \* normalizeAdministrativeRegionName, to numbers in the order of the strings

NormalAssumption == \A name \in DOMAIN Normal : Normal[name] \in Nat

RegionOf(name, level, relation) == [name |-> Normal[name], level |-> level, relation |-> relation]

\* Mutant: sorted by name only.
SortByName(regions) ==
  {s \in {[i \in DOMAIN regions |-> regions[p[i]]] : p \in SetToSeqs(DOMAIN regions)} :
     \A i, j \in DOMAIN s : i < j => s[i].name <= s[j].name}

\* sortRegions: by name and level; std::sort leaves equal ones in any order.
SortsBefore(a, b) == a.name < b.name \/ (a.name = b.name /\ a.level < b.level)
SortRegions(regions) ==
  {s \in {[i \in DOMAIN regions |-> regions[p[i]]] : p \in SetToSeqs(DOMAIN regions)} :
     \A i, j \in DOMAIN s : i < j => ~SortsBefore(s[j], s[i])}

\* retrieve: some place of the name, counted from 0, or -1.  Every round of
\* the loop but the last leaves out at least one region.
Halved(regions, name, at) ==
  LET idx == (at.max - at.min) \div 2 + at.min
  IN  IF at.min >= at.max \/ at.result # -1 THEN at
      ELSE IF name > regions[idx + 1].name THEN [at EXCEPT !.min = idx + 1]
      ELSE IF name < regions[idx + 1].name THEN [at EXCEPT !.max = idx - 1]
      ELSE [at EXCEPT !.result = idx]
Halving(regions, name) ==
  LET n == Len(regions)
      after[k \in 0..n] == IF k = 0 THEN [min |-> 0, max |-> n - 1, result |-> -1]
                           ELSE Halved(regions, name, after[k - 1])
      end == after[n]
  IN  IF end.min = end.max /\ name = regions[end.min + 1].name THEN end.min ELSE end.result

\* From there back over regions of the name, as long as their level is a
\* higher one, that is, a smaller number.
Highest(regions, found) ==
  LET back[i \in 0..Len(regions)] ==
        IF i > 0 /\ regions[i].level < regions[i + 1].level /\ regions[i].name = regions[i + 1].name
        THEN back[i - 1] ELSE i
  IN  back[found]

Retrieve(regions, name) ==
  LET found == Halving(regions, Normal[name])
  IN  IF found < 0 THEN 0 ELSE regions[Highest(regions, found) + 1].relation
=============================================================================
