---------------------------- MODULE ArchiveScan ----------------------------
(***************************************************************************)
(* The three readers of the repository's archive: search_references,       *)
(* retrieve_code and the extraction for the static checks.  A step is one  *)
(* pass of a reader's loop, over one entry.  The limits are of each        *)
(* reader's own; here they are numbers small enough to be met.             *)
(***************************************************************************)
EXTENDS Naturals, Sequences, FiniteSets

CONSTANTS Entries,      \* what an archive may contain
          MaxEntries,   \* bound on the entries of an archive
          MaxBytes, MaxEntryBytes, MaxScanned, MaxResults, TopK

ASSUME ScanAssumption ==
  /\ \A e \in Entries : e \in [kind : {"file", "dir", "link"}, readable : BOOLEAN, bytes : Nat,
                          scores : Seq(Nat), long : SUBSET Nat]
  /\ MaxEntries \in Nat /\ MaxBytes \in Nat /\ MaxEntryBytes \in Nat
  /\ MaxScanned \in Nat /\ MaxResults \in Nat \ {0} /\ TopK \in Nat \ {0}

\* An entry: its size, whether a reader wants its path, and its chunks of lines: a
\* chunk scores 0 when nothing in it matches, else it has a line that matches; "long"
\* are those with too much text for an answer.

VARIABLES
  reader,    \* which loop runs
  archive,   \* the entries
  broken,    \* the entry that cannot be read, 0: none
  position,  \* entries passed
  bytes, scanned,
  found,     \* <<entry, chunk>> of the matches, the chunks or the files on disk, in order
  seen,      \* candidate chunks
  dropped,   \* results left out: truncated, results_truncated
  partial,   \* entries left out: archive_truncated or a large file, scan_truncated
  state      \* "scan", "output", "done" or "failed"

scanVars == <<reader, archive, broken, position, bytes, scanned, found, seen, dropped, partial, state>>
input == <<reader, archive, broken>>

Entry == archive[position + 1]
ScoreOf(place) == archive[place[1]].scores[place[2]]
File(e) == e.kind = "file"
Ahead(what) == state = "scan" /\ reader = what /\ position < Len(archive)

Cut(s, n) == IF Len(s) > n THEN SubSeq(s, 1, n) ELSE s
\* The order in the archive, and that of the ranking: by score, path and line.
Earlier(a, b) == a[1] < b[1] \/ (a[1] = b[1] /\ a[2] < b[2])
Better(a, b) == ScoreOf(a) > ScoreOf(b) \/ (ScoreOf(a) = ScoreOf(b) /\ Earlier(a, b))
Sorted(S, Order(_, _)) == [k \in 1..Cardinality(S) |-> CHOOSE p \in S : Cardinality({q \in S : Order(q, p)}) = k - 1]
\* The chunks of an entry that match.
Matching(i) == {<<i, c>> : c \in {d \in DOMAIN archive[i].scores : archive[i].scores[d] > 0}}
\* Chunks small enough for an answer of retrieve_code.
Fitting(S) == {place \in S : place[2] \notin archive[place[1]].long}
Members(s) == {s[i] : i \in DOMAIN s}
Pass == position' = position + 1
Partly == partial' = TRUE
-----------------------------------------------------------------------------
\* search_references.  What stops the scan is recorded.
StopSearch == /\ Partly /\ state' = "done" /\ UNCHANGED <<position, bytes, scanned, found, seen, dropped>>

SearchSkips == /\ Pass /\ UNCHANGED <<scanned, found, seen, dropped, state>>
               /\ bytes' = IF File(Entry) THEN bytes + Entry.bytes ELSE bytes

\* Mutant: a large file is passed over without a word.
SearchTooLarge == SearchSkips /\ partial' = partial
SearchLarge == SearchSkips /\ Partly

SearchFile ==
  LET all == found \o Sorted(Matching(position + 1), Earlier)
      full == Len(all) >= MaxResults
  IN /\ found' = Cut(all, MaxResults) /\ dropped' = full
     /\ state' = IF full THEN "done" ELSE "scan"
     /\ Pass /\ bytes' = bytes + Entry.bytes /\ scanned' = scanned + 1
     /\ UNCHANGED <<seen, partial>>

Search ==
  /\ Ahead("search") /\ UNCHANGED input
  /\ \/ broken = position + 1 /\ StopSearch
     \/ broken # position + 1 /\ ~File(Entry) /\ SearchSkips /\ UNCHANGED partial
     \/ /\ broken # position + 1 /\ File(Entry)
        /\ IF bytes + Entry.bytes > MaxBytes THEN StopSearch
           ELSE IF ~Entry.readable THEN SearchSkips /\ UNCHANGED partial
           ELSE IF Entry.bytes > MaxEntryBytes THEN SearchLarge
           ELSE IF scanned >= MaxScanned THEN StopSearch
           ELSE SearchFile
-----------------------------------------------------------------------------
\* retrieve_code.  Bytes count for every entry; a chunk enters the ranking, which keeps the best.
StopRetrieval(next) == state' = next /\ UNCHANGED <<position, bytes, scanned, found, seen, dropped>>

RetrievalSkips == Pass /\ bytes' = bytes + Entry.bytes /\ UNCHANGED <<scanned, found, seen, dropped, state>>

RetrieveFile ==
  LET matching == Matching(position + 1)
  IN /\ found' = Cut(Sorted(Members(found) \cup Fitting(matching), Better), TopK)
     /\ seen' = seen + Cardinality(Fitting(matching))
     /\ dropped' = (dropped \/ Fitting(matching) # matching)
     /\ Pass /\ bytes' = bytes + Entry.bytes /\ scanned' = scanned + 1
     /\ UNCHANGED <<partial, state>>

Retrieve ==
  /\ Ahead("retrieve") /\ UNCHANGED input
  /\ IF broken = position + 1 THEN StopRetrieval("failed") /\ UNCHANGED partial
     ELSE IF bytes + Entry.bytes > MaxBytes THEN StopRetrieval("output") /\ Partly
     ELSE IF ~File(Entry) \/ ~Entry.readable THEN RetrievalSkips /\ UNCHANGED partial
     ELSE IF Entry.bytes > MaxEntryBytes THEN RetrievalSkips /\ Partly
     ELSE IF scanned >= MaxScanned THEN StopRetrieval("output") /\ Partly
     ELSE RetrieveFile

\* The result: chunks are dropped from the end until the output fits.
FitOutput ==
  /\ state = "output" /\ state' = "done"
  /\ \E n \in 0..Len(found) :
       /\ found' = Cut(found, n)
       /\ dropped' = (dropped \/ seen > Len(found) \/ n < Len(found))
  /\ UNCHANGED <<input, position, bytes, scanned, seen, partial>>
-----------------------------------------------------------------------------
\* extractStaticCheckArchive: all or nothing.
Extract ==
  /\ Ahead("extract") /\ UNCHANGED <<input, seen, dropped, partial>>
  /\ IF \/ broken = position + 1 \/ Entry.kind = "link"
        \/ File(Entry) /\ (Entry.bytes > MaxEntryBytes \/ bytes + Entry.bytes > MaxBytes \/ scanned + 1 > MaxScanned)
     THEN state' = "failed" /\ UNCHANGED <<position, bytes, scanned, found>>
     ELSE /\ Pass /\ UNCHANGED state
          /\ IF File(Entry)
             THEN bytes' = bytes + Entry.bytes /\ scanned' = scanned + 1
                  /\ found' = Append(found, <<position + 1, 0>>)
             ELSE UNCHANGED <<bytes, scanned, found>>

\* The end of the archive.
End ==
  /\ state = "scan" /\ position = Len(archive)
  /\ state' = IF reader = "retrieve" THEN "output" ELSE "done"
  /\ UNCHANGED <<input, position, bytes, scanned, found, seen, dropped, partial>>
-----------------------------------------------------------------------------
ScanInit ==
  /\ reader \in {"search", "retrieve", "extract"}
  /\ archive \in UNION {[1..n -> Entries] : n \in 0..MaxEntries} /\ broken \in 0..Len(archive)
  /\ position = 0 /\ bytes = 0 /\ scanned = 0 /\ found = <<>> /\ seen = 0
  /\ dropped = FALSE /\ partial = FALSE /\ state = "scan"

ScanNext == Search \/ Retrieve \/ FitOutput \/ Extract \/ End
ScanSpec == ScanInit /\ [][ScanNext]_scanVars
-----------------------------------------------------------------------------
ScanTypeOK ==
  /\ position \in 0..Len(archive) /\ bytes \in 0..MaxBytes /\ scanned \in 0..MaxScanned /\ seen \in Nat
  /\ dropped \in BOOLEAN /\ partial \in BOOLEAN /\ state \in {"scan", "output", "done", "failed"}

\* The files of the archive that a reader wants, and their matches.
Wants == {i \in DOMAIN archive : File(archive[i]) /\ (archive[i].readable \/ reader = "extract")}
AllMatches == UNION {Matching(i) : i \in Wants}

\* An answer not marked as incomplete is complete, for every archive and every limit met.
\* A search has the first matches of the archive and a retrieval the best chunks that fit, in
\* their order, whatever was dropped from the end; all of them unless they say so.  An
\* extraction that succeeds has every file.
UntruncatedIsComplete ==
  state = "done" /\ ~partial =>
    CASE reader = "search"   -> /\ found = Cut(Sorted(AllMatches, Earlier), Len(found))
                                /\ ~dropped => Len(found) = Cardinality(AllMatches)
      [] reader = "retrieve" -> /\ found = Cut(Sorted(Fitting(AllMatches), Better), Len(found))
                                /\ ~dropped => Len(found) = Cardinality(AllMatches)
      [] OTHER -> Members(found) = Wants \X {0}
=============================================================================
