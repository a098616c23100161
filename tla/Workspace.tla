------------------------------ MODULE Workspace ------------------------------
(***************************************************************************)
(* The tools of AgentSAST's model over the workspace of one job            *)
(* (internal/ai: toolexec.go, sandbox.go, skills.go).  SastServer has the  *)
(* job and the loop that makes the calls; here the calls are open.         *)
(*                                                                         *)
(* A path is a sequence of names from the root of the file system.  A node *)
(* has a size in bytes and, instead of its bytes, the name of what it      *)
(* holds: a source text, an archive, an artifact or something cut short.   *)
(***************************************************************************)
EXTENDS Integers, Sequences, SequencesExt, FiniteSetsExt

CONSTANTS
    Root,         \* Executor.Root
    Uploads,      \* what raw/ may hold: sets of nodes
    Archives,     \* entries of what an archive holds, and its format
    FormatOf,     \* the format a file name stands for
    Lines,        \* the lines of a text: "hit" matches the pattern, "long" exceeds the scanner's buffer
    Globs,        \* names a glob matches as base name, names that contain it, or everything
    BinaryNames, SkippedDirs,  \* binaryExt, skipDirs
    Calls,        \* the calls of the model
    SkillFiles,   \* the references of each mode, in the order of their names
    Requests,     \* the modes a job may be asked for
    Normalize,    \* lower case, and "_" for "-", " " and "/"
    MaxExtractFiles, MaxExtractBytes, ReadDefault, ReadHardCap,
    ListDefault, SearchDefault, ScanFileCap,
    MaxCalls      \* bound: calls of a job

ASSUME WorkspaceAssumption ==
    /\ Root \in Seq(STRING) /\ Root # <<>>
    /\ {MaxExtractFiles, MaxExtractBytes, ReadDefault, ReadHardCap, ListDefault, SearchDefault} \subseteq Nat \ {0}
    /\ MaxCalls \in Nat

Name == [absolute : BOOLEAN, parts : Seq(STRING)]

ASSUME ArchivesAssumption ==
    \A a \in DOMAIN Archives : Archives[a].entries \in
        Seq([name : Name, type : {"dir", "file", "link"}, size : Nat, holds : STRING, to : Seq(STRING)])

ASSUME LinesAssumption == \A t \in DOMAIN Lines : Lines[t] \in Seq(STRING)

ASSUME CallsAssumption ==
    \A c \in Calls :
        /\ c.tool = "extract_archive" => c.path \in Name /\ c.dest \in Name
        /\ c.tool = "read_file" => c.path \in Name /\ c.max \in Int /\ c.offset \in Int
        /\ c.tool \in {"list_files", "search_code"} => c.max \in Int

VARIABLES
    disk,   \* the nodes that exist
    store,  \* skillStore.refs
    job,    \* the extraction under way, or the last one
    reply,  \* what the model was told last
    calls   \* calls made

vars == <<disk, store, job, reply, calls>>

-----------------------------------------------------------------------------
(* Paths *)

withinRoot(root, abs) == Len(root) <= Len(abs) /\ \A i \in DOMAIN root : abs[i] = root[i]

Clean(path) ==
    LET Enter(p, n) == IF n = "." THEN p
                       ELSE IF n # ".." THEN Append(p, n)
                       ELSE IF p = <<>> THEN p ELSE Front(p)
        at[k \in 0..Len(path)] == IF k = 0 THEN <<>> ELSE Enter(at[k - 1], path[k])
    IN  at[Len(path)]

None == [ok |-> FALSE, path |-> <<>>]

resolve(rel) ==
    LET abs == Clean(Root \o rel.parts)
    IN  IF rel.parts = <<>> \/ rel.absolute \/ ~withinRoot(Root, abs)
        THEN None ELSE [ok |-> TRUE, path |-> abs]

Mut_safeJoin(dest, name) ==  \* looks at the path before it is cleaned
    IF name.absolute \/ ~withinRoot(dest, dest \o name.parts)
    THEN None ELSE [ok |-> TRUE, path |-> Clean(dest \o name.parts)]

safeJoin(dest, name) ==
    LET target == Clean(dest \o name.parts)
    IN  IF name.absolute \/ ~withinRoot(dest, target)
        THEN None ELSE [ok |-> TRUE, path |-> target]

-----------------------------------------------------------------------------
(* The file system *)

Node(path, kind, size, holds, to) == [path |-> path, kind |-> kind, size |-> size, holds |-> holds, to |-> to]
File(path, size, holds) == Node(path, "file", size, holds, <<>>)

\* Objects of the bucket are downloaded as files below raw/; one that lies in
\* the way of another fails the job before it starts.
ASSUME UploadsAssumption ==
    \A u \in Uploads :
        /\ IsFiniteSet(u)
        /\ \A f \in u : /\ f \in [path : Seq(STRING), kind : {"file"}, size : Nat, holds : STRING, to : {<<>>}]
                        /\ withinRoot(Root, f.path) /\ Len(f.path) > Len(Root)
        /\ \A f, g \in u : withinRoot(f.path, g.path) => f = g

\* A path leads through a link when a node on it is one.
Real(d, path) ==
    LET on == {f \in d : f.kind = "link" /\ withinRoot(f.path, path)}
    IN  IF on = {} THEN path
        ELSE LET l == CHOOSE f \in on : TRUE IN l.to \o SubSeq(path, Len(l.path) + 1, Len(path))

Blocked(d, path) == \E f \in d : f.kind = "file" /\ withinRoot(f.path, Real(d, path))

MkdirAll(d, path) ==
    LET p == Real(d, path)
    IN  d \cup {Node(SubSeq(p, 1, k), "dir", 0, "none", <<>>) : k \in (Len(Root) + 1)..Len(p)}

CannotCreate(d, path) ==
    \/ \E f \in d : f.kind = "dir" /\ f.path = Real(d, path)
    \/ Blocked(d, Front(path))

Put(d, path, size, holds) ==
    LET p == Real(d, path) IN {f \in d : f.path # p} \cup {File(p, size, holds)}

Files(d) == {f \in d : f.kind = "file"}

-----------------------------------------------------------------------------
(* extract_archive *)

\* left is what a call asked for and was not shown; told, that the answer says so.
Reply(tool, error) == [tool |-> tool, error |-> error, told |-> FALSE, left |-> {}]

Idle == [stage |-> "idle", holds |-> "none", format |-> "none", dest |-> Root, i |-> 1, n |-> 0, total |-> 0,
         before |-> {}]

Answer(r) == reply' = r /\ calls' = calls + 1
Free == job.stage = "idle" /\ calls < MaxCalls

ExtractArchive(c) ==
    LET src == resolve(c.path)
        dest == resolve(c.dest)
        made == MkdirAll(disk, dest.path)
        at == {f \in Files(disk) : f.path = src.path}
        holds == CHOOSE h \in {f.holds : f \in at} : TRUE
        format == FormatOf[Last(src.path)]
    IN  /\ Free /\ c.tool = "extract_archive"
        /\ IF ~src.ok \/ ~dest.ok \/ Blocked(disk, dest.path)
           THEN Answer(Reply(c.tool, TRUE)) /\ job' = [Idle EXCEPT !.before = disk] /\ UNCHANGED disk
           ELSE /\ disk' = made
                /\ \/ Answer(Reply(c.tool, TRUE)) /\ job' = [Idle EXCEPT !.before = made]  \* unsupported or corrupt
                   \/ /\ at # {} /\ holds \in DOMAIN Archives /\ Archives[holds].format = format
                      /\ job' = [Idle EXCEPT !.stage = "extracting", !.holds = holds, !.format = format,
                                             !.dest = dest.path, !.before = made]
                      /\ UNCHANGED <<reply, calls>>
        /\ UNCHANGED store

Entries == Archives[job.holds].entries
Entry == Entries[job.i]

Over(error) == job' = [job EXCEPT !.stage = "idle"] /\ Answer(Reply("extract_archive", error))
Advance(n, total) ==
    /\ job' = [job EXCEPT !.i = @ + 1, !.n = n, !.total = total]
    /\ UNCHANGED <<reply, calls>>

\* A file of the archive.  One byte more than is left is copied to see that
\* the limit is exceeded; the file is there by then, or is there empty.
Mut_writeCapped(d, target, n, limit) ==  \* the total is not added up
    \E w \in 0..Min({Entry.size, limit + 1}) :
        /\ disk' = Put(d, target, w, IF w = Entry.size THEN Entry.holds ELSE "cut")
        /\ \/ w <= limit /\ w = Entry.size /\ Advance(n, 0)
           \/ Over(TRUE)

writeCapped(d, target, n, limit) ==
    IF limit <= 0
    THEN disk' = Put(d, target, 0, "cut") /\ Over(TRUE)
    ELSE \E w \in 0..Min({Entry.size, limit + 1}) :
            /\ disk' = Put(d, target, w, IF w = Entry.size THEN Entry.holds ELSE "cut")
            /\ \/ w <= limit /\ w = Entry.size /\ Advance(n, MaxExtractBytes - limit + w)
               \/ Over(TRUE)  \* reading or writing fails, or w > limit

Mut_ExtractFile(target) ==  \* an entry that cannot be opened is passed over
    LET made == MkdirAll(disk, Front(target))
        n == job.n + 1
    IN  IF n > MaxExtractFiles \/ Blocked(disk, Front(target))
        THEN Over(TRUE) /\ UNCHANGED disk
        ELSE \/ disk' = made /\ Advance(n, job.total)
             \/ ~CannotCreate(made, target) /\ writeCapped(made, target, n, MaxExtractBytes - job.total)

ExtractFile(target) ==
    LET made == MkdirAll(disk, Front(target))
        n == job.n + 1
    IN  IF n > MaxExtractFiles \/ Blocked(disk, Front(target))
        THEN Over(TRUE) /\ UNCHANGED disk
        ELSE \/ disk' = made /\ Over(TRUE)  \* the entry cannot be opened
             \/ CannotCreate(made, target) /\ disk' = made /\ Over(TRUE)
             \/ ~CannotCreate(made, target) /\ writeCapped(made, target, n, MaxExtractBytes - job.total)

\* A zip has links as files that hold their target; a tar's are passed over.
Mut_ExtractLink(target) ==  \* links are made
    disk' = disk \cup {Node(target, "link", 0, "none", Entry.to)} /\ Advance(job.n, job.total)

ExtractLink(target) ==
    IF job.format = "zip" THEN ExtractFile(target)
    ELSE Advance(job.n, job.total) /\ UNCHANGED disk

ExtractDir(target) ==
    /\ disk' = IF Blocked(disk, target) THEN disk ELSE MkdirAll(disk, target)
    /\ Advance(job.n, job.total)

ExtractEntry ==
    /\ job.stage = "extracting" /\ job.i <= Len(Entries)
    /\ LET target == safeJoin(job.dest, Entry.name)
       IN  \/ Over(TRUE) /\ UNCHANGED disk  \* the archive is corrupt from here on
           \/ /\ target.ok
              /\ CASE Entry.type = "dir" -> ExtractDir(target.path)
                   [] Entry.type = "link" -> ExtractLink(target.path)
                   [] Entry.type = "file" -> ExtractFile(target.path)
    /\ UNCHANGED store

Extracted ==
    /\ job.stage = "extracting" /\ job.i > Len(Entries)
    /\ Over(FALSE)
    /\ UNCHANGED <<disk, store>>

-----------------------------------------------------------------------------
(* list_files, read_file, search_code *)

Relative(path) == SubSeq(path, Len(Root) + 1, Len(path))

\* As coded, a glob that ends in ** matches everything, and so does its text
\* anywhere in the path.
matchGlob(glob, rel) ==
    \/ glob = "" \/ Globs[glob].all
    \/ Last(rel) \in Globs[glob].base
    \/ \E i \in DOMAIN rel : rel[i] \in Globs[glob].part

Walked(d) == {f \in Files(d) : LET r == Relative(f.path)
                              IN  \A i \in 1..(Len(r) - 1) : r[i] \notin SkippedDirs}

InGlob(glob) == {f \in Walked(disk) : matchGlob(glob, Relative(f.path))}

ListCap == 5000
SearchCap == 1000
Limit(max, default, cap) == IF max <= 0 \/ max > cap THEN default ELSE max

\* The first max in the order of the walk, which is left open.
FirstOf(items, max) == {s \in SUBSET items : Cardinality(s) = Min({max, Cardinality(items)})}

Mut_ListFiles(c) ==  \* the list is cut without a word
    /\ Free /\ c.tool = "list_files"
    /\ LET asked == {<<f.path, 0>> : f \in InGlob(c.glob)}
           max == Limit(c.max, ListDefault, ListCap)
       IN  \E shown \in FirstOf(asked, max) :
              Answer([tool |-> c.tool, error |-> FALSE, told |-> FALSE, left |-> asked \ shown])
    /\ UNCHANGED <<disk, store, job>>

ListFiles(c) ==
    /\ Free /\ c.tool = "list_files"
    /\ LET asked == {<<f.path, 0>> : f \in InGlob(c.glob)}
           max == Limit(c.max, ListDefault, ListCap)
       IN  \E shown \in FirstOf(asked, max) :
              Answer([tool |-> c.tool, error |-> FALSE, told |-> Cardinality(asked) > max, left |-> asked \ shown])
    /\ UNCHANGED <<disk, store, job>>

\* A negative offset reads from the start but counts as it is; a file that is
\* no text has its zero byte first.
ReadFile(c) ==
    /\ Free /\ c.tool = "read_file"
    /\ LET src == resolve(c.path)
           at == {f \in Files(disk) : f.path = src.path}
           max == IF c.max <= 0 THEN ReadDefault ELSE Min({c.max, ReadHardCap})
           start == Max({c.offset, 0})
       IN  IF ~src.ok \/ at = {} THEN Answer(Reply(c.tool, TRUE))
           ELSE \E f \in at :
                  LET n == Max({0, Min({max, f.size - start})})
                  IN  IF f.holds \notin DOMAIN Lines /\ start = 0 /\ n > 0 THEN Answer(Reply(c.tool, TRUE))
                      ELSE Answer([tool |-> c.tool, error |-> FALSE, told |-> c.offset + n < f.size,
                                   left |-> {<<f.path, b>> : b \in (start + n)..(f.size - 1)}])
    /\ UNCHANGED <<disk, store, job>>

\* The lines before one that the scanner cannot hold.
Scanned(text) == {l \in DOMAIN Lines[text] : \A k \in 1..l : Lines[text][k] # "long"}
Text(f) == IF f.holds \in DOMAIN Lines THEN DOMAIN Lines[f.holds] ELSE {}
Hits(f, lines) == {<<f.path, l>> : l \in {k \in lines : Lines[f.holds][k] = "hit"}}
PassedOver(f) == Last(f.path) \in BinaryNames \/ f.size > ScanFileCap

\* The walk stops at the last line it may show, also when there is no other.
SearchCode(c) ==
    /\ Free /\ c.tool = "search_code"
    /\ LET read == {f \in InGlob(c.glob) : ~PassedOver(f) /\ Text(f) # {}}
           found == UNION {Hits(f, Text(f) \cap Scanned(f.holds)) : f \in read}
           max == Limit(c.max, SearchDefault, SearchCap)
       IN  \E shown \in FirstOf(found, max) :
              Answer([tool |-> c.tool, error |-> FALSE, told |-> Cardinality(found) >= max,
                      left |-> (UNION {Hits(f, Text(f)) : f \in InGlob(c.glob)}) \ shown])
    /\ UNCHANGED <<disk, store, job>>

-----------------------------------------------------------------------------
(* get_knowledge *)

\* Deep includes quick, and quick is there whatever was asked for.
NormalizeModes(asked) ==
    <<"quickscan">> \o (IF "deepscan" \in asked THEN <<"deepscan">> ELSE <<>>)
    \o (IF "pgwscan" \in asked THEN <<"pgwscan">> ELSE <<>>)

\* A topic is a name, or a mode and a name that an earlier mode has, too.
LoadSkills(modes) ==
    LET Load(refs, d) ==
            LET key == IF \E r \in refs : r.topic = <<d[2]>> THEN d ELSE <<d[2]>>
            IN  {r \in refs : r.topic # key} \cup {[topic |-> key, doc |-> d]}
    IN  FoldLeft(Load, {}, FlattenSeq([i \in DOMAIN modes |->
            [k \in DOMAIN SkillFiles[modes[i]] |-> <<modes[i], SkillFiles[modes[i]][k]>>]]))

list(refs) == {r.topic : r \in refs}
get(refs, topic) == {r \in refs : r.topic = Normalize[topic]}

Knowledge(c) ==
    /\ Free /\ c.tool = "get_knowledge"
    /\ Answer([Reply(c.tool, get(store, c.topic) = {}) EXCEPT !.left = {<<c.topic, 0>>}])
    /\ UNCHANGED <<disk, store, job>>

-----------------------------------------------------------------------------
(* write_artifact, validate_openapi *)

allowedArtifacts == {"openapi.yaml", "report.md", "base_url.txt"}
SastDir == Append(Root, "sast")

\* "blank" has no text at all, "later" none in its first line.
Trimmed(name, content) == IF name = "base_url.txt" /\ content = "later" THEN "blank" ELSE content

WriteArtifact(c) ==
    LET content == Trimmed(c.name, c.content)
        path == Append(SastDir, c.name)
        made == MkdirAll(disk, SastDir)
    IN  /\ Free /\ c.tool = "write_artifact"
        /\ IF c.name \notin allowedArtifacts \/ content = "blank" \/ Blocked(disk, SastDir)
           THEN Answer(Reply(c.tool, TRUE)) /\ UNCHANGED disk
           ELSE IF CannotCreate(made, path)
           THEN disk' = made /\ Answer(Reply(c.tool, TRUE))
           ELSE disk' = Put(made, path, 1, content) /\ Answer(Reply(c.tool, FALSE))
        /\ UNCHANGED <<store, job>>

\* The name is joined as it is.
ValidateOpenAPI(c) ==
    /\ Free /\ c.tool = "validate_openapi"
    /\ LET path == Clean(SastDir \o c.parts)
       IN  Answer(Reply(c.tool, ~\E f \in Files(disk) : f.path = path /\ f.holds = "valid"))
    /\ UNCHANGED <<disk, store, job>>

-----------------------------------------------------------------------------
\* DownloadPrefix, LoadSkills and NewExecutor of a job that starts.
Init ==
    /\ \E u \in Uploads :
          disk = (UNION {MkdirAll({}, Front(f.path)) : f \in u}) \cup u \cup {Node(Root, "dir", 0, "none", <<>>)}
    /\ \E asked \in Requests : store = LoadSkills(NormalizeModes(asked))
    /\ job = Idle
    /\ reply = Reply("none", FALSE)
    /\ calls = 0

dispatch(c) ==
    \/ ExtractArchive(c) \/ ListFiles(c) \/ ReadFile(c) \/ SearchCode(c)
    \/ Knowledge(c) \/ WriteArtifact(c) \/ ValidateOpenAPI(c)

Next == ExtractEntry \/ Extracted \/ \E c \in Calls : dispatch(c)

Spec == Init /\ [][Next]_vars

-----------------------------------------------------------------------------
(* Properties *)

\* The nodes are below the root, each path once.
TypeOK ==
    /\ \A f \in disk : f.kind \in {"dir", "file", "link"} /\ withinRoot(Root, f.path) /\ f.size \in Nat
    /\ \A f, g \in disk : f.path = g.path => f = g
    /\ job.stage \in {"idle", "extracting"} /\ withinRoot(Root, job.dest)
    /\ job.n \in 0..MaxExtractFiles /\ job.total \in 0..MaxExtractBytes
    /\ calls \in 0..MaxCalls

\* An extraction changes files below its destination only, and no other tool
\* changes one that is not an artifact (safeJoin, readTar, WriteArtifact).
WritesStayInside ==
    [][\A f \in (disk \ disk') \cup (disk' \ disk) : f.kind # "dir" =>
          withinRoot(IF job.stage = "extracting" THEN job.dest ELSE SastDir, f.path)]_disk

\* What one extraction has put on the disk, finished or not, is within the
\* limits; one byte shows that the archive exceeds them (writeCapped).
Added == {f \in Files(disk) : f \notin job.before}
Bytes(files) == MapThenSumSet(LAMBDA f : f.size, files)
ExtractionIsBounded ==
    job.stage = "extracting" \/ reply.tool = "extract_archive" =>
        Cardinality(Added) <= MaxExtractFiles /\ Bytes(Added) <= MaxExtractBytes + 1

\* An extraction that is said to have worked has left every file of the archive
\* whole: the last one of a path, at that path (extractZip, readTar).
Taken == {i \in DOMAIN Entries : Entries[i].type = "file" \/ (Entries[i].type = "link" /\ job.format = "zip")}
Target(i) == safeJoin(job.dest, Entries[i].name).path
SuccessIsComplete ==
    reply.tool = "extract_archive" /\ ~reply.error /\ job.stage = "idle" =>
        /\ job.n = Cardinality(Taken)
        /\ \A i \in Taken : (\A k \in Taken : k > i => Target(k) # Target(i))
              => File(Target(i), Entries[i].size, Entries[i].holds) \in disk

\* An answer that leaves out something that was asked for says so, but for the
\* lines of files that the search passes over and those behind a line it cannot
\* hold (ListFiles, ReadFile, SearchCode).
Silent(place) ==
    \E f \in Files(disk) : f.path = place[1] /\ (PassedOver(f) \/ place[2] \notin Scanned(f.holds))
CutIsTold ==
    [][calls' # calls /\ reply'.tool \in {"list_files", "read_file", "search_code"} /\ ~reply'.told =>
          \A place \in reply'.left : reply'.tool = "search_code" /\ Silent(place)]_vars

\* Every topic that is listed can be pulled: "Methodology (pull each via
\* get_knowledge)" of skills/sast/deepscan/SKILL.md.
TopicsAreServed ==
    reply.tool = "get_knowledge" /\ reply.error => \A t \in reply.left : t[1] \notin list(store)
=============================================================================
