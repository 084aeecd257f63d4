----------------------------- MODULE Download -----------------------------
(***************************************************************************)
(* Requests for files from the target to the last byte: dispatch() and     *)
(* serveFile() of src/src/fastdl_server.cpp over PathResolver, Negotiation *)
(* and the file access of src/src/secure_file.cpp, for a client that keeps *)
(* what it received, resumes with Range and If-Range, and revalidates.     *)
(* Between any two steps the file may be replaced (a new file under the    *)
(* name), removed and put back.                                            *)
(***************************************************************************)
EXTENDS PathResolver, Negotiation

CONSTANTS
    Lists,         \* values of fastdl_serve_dirs, _types and _root_types, split
    Urls,          \* targets of the requests that are only resolved
    FileUrl,       \* the target whose file changes
    Size, GzSize,  \* bytes of every version and compressed (0: never compressed)
    Modified,      \* its modification time in seconds
    Decimal,       \* the digits a client writes for a number of bytes
    RangeHeaders, AcceptHeaders,
    MaxRangeText   \* characters of a Range header that are read (256)

ASSUME DownloadConstants ==
    /\ {Size, GzSize, Modified} \subseteq Seq(Nat) /\ Size # <<>>
    /\ DOMAIN Size = DOMAIN Modified /\ DOMAIN GzSize = DOMAIN Size
    /\ Components(FileUrl) \in DOMAIN Tree
    \* A later version has a later second.
    /\ \A v, w \in DOMAIN Modified : v < w => Modified[v] < Modified[w]
    /\ \A v \in DOMAIN Size : 0..Size[v] \cup 0..GzSize[v] \subseteq DOMAIN Decimal
    /\ \A n \in DOMAIN Decimal :
         Decimal[n] \in Seq(Nat) /\ Number(Decimal[n]) /\ Value(Decimal[n]) = n
    /\ \A h \in RangeHeaders :
         \/ h.form = "malformed"
         \/ h.form = "bytes" /\ h.first \in Seq(Nat) /\ h.last \in Seq(Nat)
    /\ AcceptHeaders \subseteq Seq([coding : STRING, allowed : BOOLEAN])
    /\ MaxRangeText \in Nat

VARIABLES
    lists,          \* what PathResolver::configure() made of the cvars
    disk, latest,   \* version under the name (0: none), last version so far
    phase,          \* progress of the request
    req, reply,     \* the request and its answer
    fd,             \* version the descriptor holds
    copy            \* what the client has

vars == <<lists, disk, latest, phase, req, reply, fd, copy>>

Versions == DOMAIN Size
FilePath == Components(FileUrl)

\* Byte i of a version or of its gzip representation
Length(etag) == IF etag.gzip THEN GzSize[etag.version] ELSE Size[etag.version]
Etags == [version : Versions, gzip : BOOLEAN]
Bytes(etag, start, length) == [i \in 1..length |-> <<etag, start + i - 1>>]

NoEtag == [version |-> 0, gzip |-> FALSE]
NoCopy == [etag |-> NoEtag, bytes |-> <<>>]
NoReply == [status |-> "none", etag |-> NoEtag, body |-> <<>>]
NoHeader == [form |-> "none"]
\* filled: the headers that are longer than what serveFile() reads of them, for
\* blanks, long lists or foreign text around the value
Plain(url) == [kind |-> "path", url |-> url, range |-> NoHeader, ifRange |-> NoHeader,
               accept |-> <<>>, ifNone |-> {}, ifSince |-> -1, filled |-> {}]

TypeOK ==
    /\ disk \in 0..Len(Size) /\ latest \in Versions /\ fd \in 0..Len(Size)
    /\ phase \in {"idle", "asked", "found", "opened", "answered"}
    /\ req.kind \in {"path", "probe", "get", "resume", "check"}
    /\ reply.status \in {"none", "Ok", "200", "206", "304", "403", "404", "416", "500"}
    /\ \A b \in ToSet(reply.body) \cup ToSet(copy.bytes) :
         b[1] \in Etags /\ b[2] \in 0..(Length(b[1]) - 1)
    /\ copy.etag \in Etags \cup {NoEtag}

-----------------------------------------------------------------------------
(* The operator's file system *)

ReplaceFile ==
    /\ latest + 1 \in Versions
    /\ latest' = latest + 1 /\ disk' = latest + 1
    /\ UNCHANGED <<lists, phase, req, reply, fd, copy>>

RemoveFile ==
    /\ disk # 0
    /\ disk' = 0
    /\ UNCHANGED <<lists, latest, phase, req, reply, fd, copy>>

PutBackFile ==
    /\ disk = 0
    /\ disk' = latest
    /\ UNCHANGED <<lists, latest, phase, req, reply, fd, copy>>

-----------------------------------------------------------------------------
(* The client *)

Asked(r) == [Plain(FileUrl) EXCEPT !.kind = r]
Complete == copy.etag # NoEtag /\ Len(copy.bytes) = Length(copy.etag)

\* Ranges and conditions of every form, by a client that keeps nothing
Probe(h, a, c, f) ==
    [Asked("probe") EXCEPT !.range = h, !.accept = a, !.ifRange = c, !.filled = f]
ProbeAny == [Asked("probe") EXCEPT !.ifNone = {AnyEtag}]
ProbeConditions == {NoHeader, [form |-> "date", date |-> Modified[1]]}
ProbeFilled == {{}, {"Range"}, {"If-Range"}, {"Accept-Encoding"}}
Probes ==
    {Probe(h, a, c, f) : h \in RangeHeaders, a \in AcceptHeaders,
                         c \in ProbeConditions, f \in ProbeFilled}
    \cup {ProbeAny}

Downloads == {[Asked("get") EXCEPT !.accept = a] : a \in AcceptHeaders}

\* The rest of an interrupted download, if it is still the same
Resumptions ==
    {[Asked("resume") EXCEPT !.range = [form |-> "bytes", first |-> Decimal[Len(copy.bytes)],
                                        last |-> <<>>],
                             !.ifRange = [form |-> "etag", etag |-> copy.etag],
                             !.accept = a] : a \in AcceptHeaders}

\* Is the complete copy still current?  By entity tag, by date or by both
CheckTag(a) == [Asked("check") EXCEPT !.ifNone = {copy.etag}, !.accept = a]
CheckDate(n, f) ==
    [Asked("check") EXCEPT !.ifNone = n, !.ifSince = Modified[copy.etag.version], !.filled = f]
Revalidations ==
    {CheckTag(a) : a \in AcceptHeaders}
    \cup {CheckDate(n, f) : n \in {{}, {copy.etag}},
                            f \in SUBSET {"If-None-Match", "If-Modified-Since"}}

Offered ==
    IF copy = NoCopy THEN {Plain(u) : u \in Urls} \cup Probes \cup Downloads
    ELSE IF Complete THEN Revalidations
    ELSE IF copy.bytes = <<>> THEN Downloads ELSE Resumptions \cup Downloads

Ask(r) ==
    /\ phase' = "asked" /\ req' = r
    /\ UNCHANGED <<lists, disk, latest, reply, fd, copy>>

-----------------------------------------------------------------------------
(* The server *)

Answered(status, etag, body) ==
    /\ phase' = "answered"
    /\ reply' = [status |-> status, etag |-> etag, body |-> body]

Error(status) == Answered(status, NoEtag, <<>>)

\* The entry canonical() finds now
Found(url) ==
    LET node == Canonical(Components(url)) IN
    IF node.at # FilePath THEN node
    ELSE IF disk = 0 THEN Missing
    ELSE [node EXCEPT !.size = Size[disk]]

StatusOf(resolved) ==
    CASE resolved = "Ok" -> "Ok"
      [] resolved \in {"NotFound", "NotAFile"} -> "404"
      [] resolved = "IoError" -> "500"
      [] OTHER -> "403"

Dispatch ==
    LET resolved == Resolve(lists, req.url, Found(req.url)) IN
    /\ phase = "asked"
    /\ IF resolved = "Ok" /\ req.kind # "path"
       THEN phase' = "found" /\ UNCHANGED reply
       ELSE Error(StatusOf(resolved))
    /\ UNCHANGED <<lists, disk, latest, req, fd, copy>>

\* openReadFile(): the file may be gone, or another one, since resolve().
OpenReadFile ==
    /\ phase = "found"
    /\ IF disk = 0
       THEN Error("500") /\ UNCHANGED fd
       ELSE phase' = "opened" /\ fd' = disk /\ UNCHANGED reply
    /\ UNCHANGED <<lists, disk, latest, req, copy>>

\* inspectReadFile(): the descriptor must hold what the name stands for.
InspectReadFile == disk = fd

\* "bytes=first-last" may have so many digits that it is too long by itself.
RangeText(range) ==
    IF range.form = "bytes" THEN 7 + Len(range.first) + Len(range.last) ELSE 0
Oversized(r) ==
    r.filled \cup (IF RangeText(r.range) > MaxRangeText THEN {"Range"} ELSE {})

\* header(): a text beyond its bound reads as if there were no such header.
Header(name, value, absent) == IF name \in Oversized(req) THEN absent ELSE value

\* serveFile() after the file was opened; hit: the cache has the representation
\* of this version (CompressionCache: RepresentationFaithful).
ServeFile(hit) ==
    LET range    == Header("Range", req.range, NoHeader)
        ifRange  == Header("If-Range", req.ifRange, NoHeader)
        accept   == Header("Accept-Encoding", req.accept, <<>>)
        ifNone   == Header("If-None-Match", req.ifNone, {})
        ifSince  == Header("If-Modified-Since", req.ifSince, -1)
        asked    == ParseRange(range, Size[fd])
        matches  == IfRangeMatches(ifRange, MakeEtag(fd, FALSE), Modified[fd])
        partial  == asked.status = "Valid" /\ matches
        gzip     == ~partial /\ AcceptsGzip(accept) /\ hit /\ GzSize[fd] # 0
        etag     == MakeEtag(fd, gzip)
        unneeded == NotModified(ifNone, ifSince, etag, Modified[fd])
    IN
    /\ phase = "opened"
    /\ IF ~InspectReadFile THEN Error("500")
       ELSE IF Size[fd] > MaxFileBytes THEN Error("403")
       ELSE IF asked.status \in {"Invalid", "Unsatisfiable"} THEN Error("416")
       ELSE IF unneeded THEN Answered("304", etag, <<>>)
       ELSE IF partial THEN Answered("206", etag, Bytes(etag, asked.start, asked.length))
       ELSE Answered("200", etag, Bytes(etag, 0, Length(etag)))
    /\ UNCHANGED <<lists, disk, latest, req, fd, copy>>

\* The body arrives up to its n-th byte; then the connection ends.
Received(n) ==
    LET part == SubSeq(reply.body, 1, n) IN
    CASE req.kind \in {"get", "resume", "check"} /\ reply.status = "200" ->
           [etag |-> reply.etag, bytes |-> part]
      [] req.kind = "resume" /\ reply.status = "206" ->
           [copy EXCEPT !.bytes = @ \o part]
      [] req.kind = "resume" /\ reply.status = "416" -> NoCopy
      [] OTHER -> copy

Receive(n) ==
    /\ phase = "answered"
    /\ copy' = Received(n)
    /\ phase' = "idle" /\ fd' = 0 /\ reply' = NoReply /\ req' = Plain(FileUrl)
    /\ UNCHANGED <<lists, disk, latest>>

-----------------------------------------------------------------------------

Init ==
    /\ lists \in {Configure(l.dirs, l.types, l.rootTypes) : l \in Lists}
    /\ disk = 1 /\ latest = 1
    /\ phase = "idle" /\ req = Plain(FileUrl) /\ reply = NoReply /\ fd = 0
    /\ copy = NoCopy

Operator == ReplaceFile \/ RemoveFile \/ PutBackFile

Server == Dispatch \/ OpenReadFile \/ \E hit \in BOOLEAN : ServeFile(hit)

Client ==
    \/ phase = "idle" /\ \E r \in Offered : Ask(r)
    \/ \E n \in 0..Len(reply.body) : Receive(n)

Next == Operator \/ Server \/ Client

Spec == Init /\ [][Next]_vars

-----------------------------------------------------------------------------
(* Properties *)

\* A 206 carries exactly the bytes that were asked for, of the uncompressed
\* file that was opened; a range is only refused when it is malformed, does not
\* fit into 64 bits or selects nothing; it is only ignored for If-Range or when
\* the header is oversized, and then it is ignored altogether.
RangeExact == phase = "answered" /\ req.range.form = "bytes" =>
    LET wanted == Selected(req.range, Size[fd])
        understood == Understood(req.range.first) /\ Understood(req.range.last)
    IN /\ reply.status = "206" =>
            /\ {b[2] : b \in ToSet(reply.body)} = wanted
            /\ \A i \in DOMAIN reply.body :
                 reply.body[i] = <<MakeEtag(fd, FALSE), reply.body[1][2] + i - 1>>
       /\ reply.status = "416" => wanted = {} \/ ~understood
       /\ reply.status = "200" => req.ifRange.form # "none" \/ "Range" \in Oversized(req)
       /\ "Range" \in Oversized(req) => reply.status \notin {"206", "416"}

\* However a download was interrupted and resumed while the file was replaced,
\* removed or compressed, the client never holds bytes of two versions or of
\* the compressed and the plain representation in one copy.
CopyCoherent ==
    \A i \in DOMAIN copy.bytes : copy.bytes[i] = <<copy.etag, i - 1>>

\* A client that asks about its complete copy, by entity tag, by date or by both
\* with one of them oversized, only gets 304 when the copy is of the version that
\* was opened.
NotModifiedCurrent ==
    phase = "answered" /\ req.kind = "check" /\ reply.status = "304" =>
      copy.etag.version = fd

\* A client that excludes gzip by name gets the plain file, wherever "*" stands
\* in the header, and one that accepts neither never gets gzip.
GzipOnlyWhenAccepted ==
    LET verdicts(c) == {i.allowed : i \in {j \in ToSet(req.accept) : j.coding = c}} IN
    phase = "answered" /\ reply.status = "200" /\ reply.etag.gzip =>
      TRUE \in (IF verdicts("gzip") # {} THEN verdicts("gzip") ELSE verdicts("*"))

\* "Canonical path, not the requested one": whatever way the target took through
\* links, a file is of a listed type and served from a listed directory, which
\* the build of the gzip cache visits, or directly below the root with a type
\* that is listed for the root as well.
ServedIsListed ==
    phase = "answered" /\ reply.status = "Ok" =>
      LET node == Canonical(Components(req.url)) IN
      /\ lists.allTypes \/ ExtensionOf(node) \in lists.types
      /\ \/ SubSeq(node.at, 1, 1) \in ScanDirectories(lists) /\ Len(node.at) > 1
         \/ Len(node.at) = 1 /\ (lists.allRootTypes \/ ExtensionOf(node) \in lists.rootTypes)
=============================================================================
