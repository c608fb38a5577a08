------------------------------ MODULE Toolkit ------------------------------
(***************************************************************************)
(* What one review remembers while its tools run, one after another: the   *)
(* pull request, its files, the contents read within a budget, and the     *)
(* repository's archive in a temporary file.  Every request to GitHub and  *)
(* every file operation may fail, removals too: their errors are ignored   *)
(* and the name is forgotten.  The author may push in between.             *)
(***************************************************************************)
EXTENDS Naturals, Sequences, FiniteSets

CONSTANTS FileBytes,    \* the bytes of each path's content
          MaxFileBytes, MaxTotalBytes,
          MaxPushes,    \* bound on the heads of the pull request
          MaxArchives   \* bound on the temporary files created

ASSUME ToolkitAssumption ==
  /\ \A path \in DOMAIN FileBytes : FileBytes[path] \in Nat
  /\ MaxFileBytes \in Nat /\ MaxTotalBytes \in Nat /\ MaxPushes \in Nat \ {0} /\ MaxArchives \in Nat

VARIABLES
  head,       \* the pull request's head on GitHub
  pr,         \* the head of the cached pull request, 0: none
  listed,     \* the files are loaded
  held,       \* paths whose content is cached
  heldBytes,
  tarball,    \* the cached archive: [file, ref], file 0: none
  tempFiles,  \* archives in the temporary directory: [file, ref]
  leftover,   \* those of them whose removal has failed
  created,    \* archives created so far
  workdir,    \* the running call's copy of the repository is on disk
  strayDir,   \* a copy is on disk whose removal has failed
  todo,       \* what is left of the tool call that runs
  opened,     \* the archive that the call reads, or none
  released    \* Close has run

toolkitVars == <<head, pr, listed, held, heldBytes, tarball, tempFiles, leftover, created, workdir, strayDir,
                 todo, opened, released>>
caches == <<pr, listed, held, heldBytes>>
archives == <<tarball, tempFiles, leftover, created>>
dirs == <<workdir, strayDir>>

NoArchive == [file |-> 0, ref |-> 0]
Archives == [file : 0..MaxArchives, ref : 0..MaxPushes]
\* What each tool asks for, in order; the review itself asks for the first two.
MetaCall == <<"pr">>
ChangedFilesCall == <<"files">>
DiffCall == <<"files">>
\* The files are needed when the call names no lines.
FileContextCalls == {<<"pr", "content">>, <<"pr", "content", "files">>}
SearchCall == <<"pr", "archive", "files">>
RetrievalCall == <<"pr", "archive">>
StaticChecksCall == <<"pr", "workdir", "archive">>
ToolCalls == {MetaCall, ChangedFilesCall, DiffCall, SearchCall, RetrievalCall, StaticChecksCall} \cup FileContextCalls

\* The end of a call, with its deferred clean-up: the work directory is removed, or stays.
Ended == /\ todo' = <<>> /\ opened' = NoArchive /\ workdir' = FALSE
         /\ strayDir' \in {strayDir, strayDir \/ workdir}
Onward == todo' = IF Len(todo) = 1 THEN <<"return">> ELSE Tail(todo)
Advance == Onward /\ UNCHANGED <<opened, dirs>>
Doing(what) == todo # <<>> /\ Head(todo) = what
-----------------------------------------------------------------------------
Push == head < MaxPushes /\ head' = head + 1
        /\ UNCHANGED <<caches, archives, dirs, todo, opened, released>>

Begin == /\ ~released /\ todo = <<>> /\ todo' \in ToolCalls
         /\ UNCHANGED <<head, caches, archives, dirs, opened, released>>

\* The last step of a call is done.
Finish == /\ Doing("return") /\ Ended
          /\ UNCHANGED <<head, caches, archives, released>>

\* Any request to GitHub, or making the work directory, fails: nothing is cached.  An
\* archive that cannot be unpacked ends its call too.
AskFails ==
  /\ \/ Doing("pr") /\ pr = 0
     \/ Doing("files") /\ (~listed \/ opened # NoArchive)
     \/ Doing("content") \/ Doing("workdir") \/ Doing("download")
  /\ Ended /\ UNCHANGED <<head, caches, archives, released>>

PullRequest == /\ Doing("pr") /\ pr' = (IF pr = 0 THEN head ELSE pr) /\ Advance
               /\ UNCHANGED <<head, listed, held, heldBytes, archives, released>>

Files == /\ Doing("files") /\ listed' = TRUE /\ Advance
         /\ UNCHANGED <<head, pr, held, heldBytes, archives, released>>

\* cachedFileContent and storeFileCache.
Stores(path) == FileBytes[path] \in 1..MaxFileBytes /\ path \notin held /\ heldBytes + FileBytes[path] <= MaxTotalBytes
Content(path) ==
  /\ Doing("content") /\ Advance
  /\ IF Stores(path) THEN held' = held \cup {path} /\ heldBytes' = heldBytes + FileBytes[path]
     ELSE UNCHANGED <<held, heldBytes>>
  /\ UNCHANGED <<head, pr, listed, archives, released>>

MakeWorkdir == /\ Doing("workdir") /\ workdir' = TRUE /\ UNCHANGED strayDir /\ Onward
               /\ UNCHANGED <<head, caches, archives, opened, released>>
-----------------------------------------------------------------------------
\* os.Remove, whose error is ignored.
Remove(archive) ==
  \/ tempFiles' = tempFiles \ {archive} /\ UNCHANGED leftover
  \/ archive \in tempFiles /\ leftover' = leftover \cup {archive} /\ UNCHANGED tempFiles

\* removeTarballLocked forgets the archive in either case.
RemoveTarball == tarball' = NoArchive /\ Remove(tarball)

\* cachedTarball up to the download: the cached file is opened again, if it can be.
Reuse == /\ Doing("archive") /\ tarball # NoArchive /\ tarball.ref = pr
         /\ opened' = tarball /\ Onward /\ UNCHANGED dirs
         /\ UNCHANGED <<head, caches, archives, released>>

Replace == /\ Doing("archive") /\ todo' = <<"download">> \o Tail(todo)
           /\ RemoveTarball /\ UNCHANGED created
           /\ UNCHANGED <<head, caches, dirs, opened, released>>

\* The archive arrives in a temporary file: [file, ref] is on disk from here on.
Download == /\ Doing("download") /\ created < MaxArchives
            /\ created' = created + 1
            /\ tempFiles' = tempFiles \cup {[file |-> created + 1, ref |-> pr]}
            /\ todo' = <<"copy">> \o Tail(todo)
            /\ UNCHANGED <<head, caches, tarball, leftover, dirs, opened, released>>

Partial == [file |-> created, ref |-> pr]
\* Mutant: an archive that is refused stays on disk.
RefuseAndKeep == /\ Doing("copy") /\ Ended
                 /\ UNCHANGED <<head, caches, archives, released>>
\* The copy fails, cannot be closed, is too large or empty.
Refuse == /\ Doing("copy") /\ Ended
          /\ Remove(Partial)
          /\ UNCHANGED <<head, caches, tarball, created, released>>

Remember == /\ Doing("copy") /\ tarball' = Partial /\ todo' = <<"open">> \o Tail(todo)
            /\ UNCHANGED <<head, caches, tempFiles, leftover, created, dirs, opened, released>>

Open == /\ Doing("open") /\ opened' = tarball /\ Onward /\ UNCHANGED dirs
        /\ UNCHANGED <<head, caches, archives, released>>

OpenFails == /\ Doing("open") /\ Ended /\ RemoveTarball /\ UNCHANGED created
             /\ UNCHANGED <<head, caches, released>>

\* The review ends, with or without an answer.
Release == /\ todo = <<>> /\ released' = TRUE /\ RemoveTarball /\ UNCHANGED created
           /\ UNCHANGED <<head, caches, dirs, todo, opened>>
-----------------------------------------------------------------------------
ToolkitInit ==
  /\ head = 1 /\ pr = 0 /\ listed = FALSE /\ held = {} /\ heldBytes = 0
  /\ tarball = NoArchive /\ tempFiles = {} /\ leftover = {} /\ created = 0 /\ workdir = FALSE /\ strayDir = FALSE
  /\ todo = <<>> /\ opened = NoArchive /\ released = FALSE

ToolkitNext ==
  \/ Push \/ Begin \/ Finish \/ AskFails \/ PullRequest \/ Files \/ MakeWorkdir
  \/ \E path \in DOMAIN FileBytes : Content(path)
  \/ Reuse \/ Replace \/ Download \/ Refuse \/ Remember \/ Open \/ OpenFails \/ Release
ToolkitSpec == ToolkitInit /\ [][ToolkitNext]_toolkitVars
-----------------------------------------------------------------------------
ToolkitTypeOK ==
  /\ head \in 1..MaxPushes /\ pr \in 0..MaxPushes /\ listed \in BOOLEAN
  /\ held \subseteq DOMAIN FileBytes /\ heldBytes \in 0..MaxTotalBytes
  /\ tarball \in Archives /\ opened \in Archives /\ created \in 0..MaxArchives
  /\ tempFiles \subseteq Archives /\ leftover \subseteq Archives
  /\ workdir \in BOOLEAN /\ strayDir \in BOOLEAN /\ released \in BOOLEAN

\* Whatever fails, nothing on disk is forgotten without an attempt to remove it: there is
\* the one archive that the toolkit remembers, a file being filled, and what could not be
\* removed; after Close only the last.  A call ends with its work directory removed, or
\* tried to be.  What a call reads is the remembered archive, which is none of those given
\* up and is of the head that the review is about.
FilesAccounted ==
  /\ tempFiles \ leftover = ({tarball} \ {NoArchive}) \cup (IF Doing("copy") THEN {Partial} ELSE {})
  /\ leftover \subseteq tempFiles
  /\ released => tempFiles = leftover
  /\ todo = <<>> => ~workdir /\ opened = NoArchive
  /\ opened # NoArchive => opened = tarball /\ opened.ref = pr
=============================================================================
