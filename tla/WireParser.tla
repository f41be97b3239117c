----------------------------- MODULE WireParser -----------------------------
(***************************************************************************)
(* The parser of internal/wire/parser.go and group.go on one connection:   *)
(* it cuts the bytes of the traced calls into messages, in each direction, *)
(* finds its way back after bytes are missing, and gives every message the *)
(* group of the command it belongs to.                                     *)
(*                                                                         *)
(* A connection is a conversation: messages of the two sides in turn.  The *)
(* bytes of a message are cells: the first stands for its first byte (the  *)
(* code of a regular message), the second completes what the parser reads  *)
(* as a header, the others are payload.  A cell is named by its position in*)
(* the conversation, and `at' is the position of a message's first cell.   *)
(* A chunk is a run of cells of one side.  It may be captured whole or cut *)
(* short (Truncated), or be missing; the probes may be attached when the   *)
(* conversation is under way.  The parser knows a connection by its pid and*)
(* an address: a later backend may have both, and its conversation goes on *)
(* where the first one ended.                                              *)
(*                                                                         *)
(* What the parser reads as a header where there is none depends on the    *)
(* data: with noise it looks like a short message with a known code, else  *)
(* the length is out of range.  The decoding of WAL is in WalDecoder; the  *)
(* contents of messages are left out.                                      *)
(***************************************************************************)
EXTENDS Integers, Sequences, FiniteSets

CONSTANTS
    Conversations,  \* sequences of messages
    MaxChunk,       \* cells of a traced call
    MaxBuffer,      \* maxBufferedBytes
    Retain,         \* resyncRetainBytes
    Swallow,        \* the length of a startup packet read as a regular message
    MaxFaults       \* bound on truncated and missing chunks

Direction == {"client", "server"}
Group == {"sql", "config", "wal"}
NoGroup == ""
Startups == {"SSLRequest", "Startup"}

\* A message: the first byte of its payload (as far as the parser looks at it), its
\* cells, from the one at `at' on, and the group of the command it belongs to.
Message == [dir : Direction, type : STRING, first : {"r", "h", "w", "k", "other"},
            size : Nat \ {0, 1}, group : Group, at : Nat \ {0}]

\* The position after a message.
Follows(c, m) == c[m].at + c[m].size

\* The messages of a conversation lie one after the other (the order of any two
\* follows, by induction, from that of neighbours).
ASSUME LayoutAssumption ==
    \A c \in Conversations :
        /\ c \in Seq(Message) /\ c # <<>> /\ c[1].at = 1
        /\ \A m \in 1..(Len(c) - 1) : c[m + 1].at = Follows(c, m)
        /\ \A m, n \in DOMAIN c : m < n => Follows(c, m) <= c[n].at

ClientTypes == Startups \union {"PasswordMessage", "Terminate", "Query", "CopyQuery",
    "IdentifySystem", "StartReplication", "BaseBackup"}
ServerTypes == {"Authentication", "ReadyForQuery", "CopyInResponse", "CopyOutResponse",
                "CopyBothResponse"}

\* Who sends what; the client begins, with a startup packet.
ASSUME ProtocolAssumption ==
    \A c \in Conversations :
        /\ c[1].type \in Startups
        /\ \A m \in DOMAIN c : /\ c[m].type \in ClientTypes => c[m].dir = "client"
                               /\ c[m].type \in ServerTypes => c[m].dir = "server"

ReplicationCommand == {"StartReplication", "BaseBackup"}
Answer == {"CopyBothResponse", "CopyOutResponse", "ReadyForQuery"}

\* Message n comes between a replication command and the answer to it.
Unanswered(c, n) ==
    \E m \in 1..n : /\ c[m].type \in ReplicationCommand
                    /\ \A k \in (m + 1)..n : c[k].type \notin Answer

\* The messages that give a command its group.
GroupOfType(type) ==
    CASE type \in Startups \union {"Terminate", "IdentifySystem"} \union ReplicationCommand
            -> "config"
      [] type = "CopyBothResponse" -> "wal"
      [] type \in {"Query", "CopyQuery"} -> "sql"
      [] OTHER -> "none"

\* The copy that a base backup begins is WAL traffic (startsWalStreamingSQL).
BeginsBackup(c, n) == n > 1 /\ c[n].type = "CopyOutResponse" /\ Unanswered(c, n - 1)

\* The others belong to the command that is under way, which ReadyForQuery ends: the
\* rows of a COPY too, whatever they begin with.  Authentication is part of the
\* startup, and the client waits for the answer to a replication command.
ASSUME CommandAssumption ==
    \A c \in Conversations : \A n \in DOMAIN c :
        /\ GroupOfType(c[n].type) # "none" => c[n].group = GroupOfType(c[n].type)
        /\ n > 1 /\ GroupOfType(c[n].type) = "none" =>
              c[n].group = IF c[n - 1].type = "ReadyForQuery" THEN "sql"
                           ELSE IF BeginsBackup(c, n) THEN "wal"
                           ELSE c[n - 1].group
        /\ n > 1 /\ c[n].type \in {"Authentication", "PasswordMessage"} =>
              c[n - 1].group = "config" /\ c[n - 1].type # "ReadyForQuery"
        /\ n > 1 /\ Unanswered(c, n - 1) =>
              c[n].dir = "server" /\ c[n].type \notin {"CopyData", "CopyDone", "CopyInResponse"}

ASSUME BoundAssumption ==
    {MaxChunk, MaxBuffer, Retain, Swallow, MaxFaults} \subseteq Nat \ {0}

VARIABLES
    conversation, noise,    \* chosen at the start
    pos,        \* the next cell of the conversation
    conn,       \* connectionState
    streams,    \* streamState of each direction
    feeding,    \* the chunk Feed is at, NoChunk between calls
    events,     \* the events returned so far
    missing,    \* history: a chunk was missing after the first one
    faults,     \* history: chunks cut or missing, the beginning included
    owed        \* history: messages captured in one chunk without an event

vars == <<conversation, noise, pos, conn, streams, feeding, events, missing,
          faults, owed>>

NoChunk == [dir |-> "none", truncated |-> FALSE]
NoStream == [made |-> FALSE, buffer |-> <<>>, startupDone |-> FALSE, syncLost |-> FALSE]

Size(m) == conversation[m].size
TypeOf(m) == conversation[m].type

\* The cells from p on.
Run(p, n) == [i \in 1..n |-> p + i - 1]
CellsOf(m) == Run(conversation[m].at, Size(m))

End(c) == Follows(c, Len(c)) - 1
Owner == [c \in Conversations |->
    [p \in 1..End(c) |-> CHOOSE m \in DOMAIN c : c[m].at <= p /\ p < Follows(c, m)]]
MessageOf(p) == Owner[conversation][p]
DirOf(p) == conversation[MessageOf(p)].dir

-----------------------------------------------------------------------------
(* Reading a header at place i of a buffer                                 *)

\* The message whose first two cells are there, 0 for none.
MessageAt(buffer, i) ==
    LET m == MessageOf(buffer[i])
    IN  IF conversation[m].at = buffer[i] /\ buffer[i + 1] = buffer[i] + 1 THEN m ELSE 0

NoiseLength == IF noise THEN 2 ELSE 0

\* The length the startup parser reads, 0 if it is out of range: the code of a
\* regular message makes it too large.
StartupLength(buffer) ==
    LET m == MessageAt(buffer, 1) IN
    IF m = 0 THEN NoiseLength
    ELSE IF TypeOf(m) \in Startups THEN Size(m) ELSE 0

\* The length of a regular message.  The first byte of a startup packet is
\* read as its code, and the length is shifted by a byte.
RegularLength(buffer, i) ==
    LET m == MessageAt(buffer, i) IN
    IF m = 0 THEN NoiseLength
    ELSE IF TypeOf(m) \in Startups THEN Swallow ELSE Size(m)

\* The list of the server's codes leaves two of them out, 'c' and 'V'.
Unlisted(m) ==
    conversation[m].dir = "server" /\ TypeOf(m) \in {"CopyDone", "FunctionCallResponse"}

\* isKnownMessageCode.  A startup packet begins with a zero byte.
KnownCode(buffer, i) ==
    LET m == MessageAt(buffer, i) IN
    IF m = 0 THEN noise ELSE TypeOf(m) \notin Startups /\ ~Unlisted(m)

InStartup(dir, stream) == dir = "client" /\ ~stream.startupDone

HeaderLength(dir, stream) == IF InStartup(dir, stream) THEN StartupLength(stream.buffer)
                                                       ELSE RegularLength(stream.buffer, 1)

\* The search misses a message at the very beginning.
MessageStartsLate(buffer) ==
    {i \in 2..(Len(buffer) - 1) :
        /\ KnownCode(buffer, i) /\ RegularLength(buffer, i) > 0
        /\ i - 1 + RegularLength(buffer, i) <= Len(buffer)}

\* findRegularMessageStart looks for a message that is there whole.
MessageStarts(buffer) ==
    {i \in 1..(Len(buffer) - 1) :
        /\ KnownCode(buffer, i) /\ RegularLength(buffer, i) > 0
        /\ i - 1 + RegularLength(buffer, i) <= Len(buffer)}

(* tryResync: a whole startup packet where one is expected, else the first *)
(* whole regular message; else what could be the beginning of one is kept. *)
Resync(dir, stream) ==
    LET buffer == stream.buffer
        starts == MessageStarts(buffer)
    IN  IF /\ InStartup(dir, stream) /\ Len(buffer) >= 2
           /\ StartupLength(buffer) \in 1..Len(buffer)
        THEN [stream EXCEPT !.syncLost = FALSE]
        ELSE IF starts # {}
        THEN LET first == CHOOSE i \in starts : \A j \in starts : i <= j IN
             [made |-> TRUE, buffer |-> SubSeq(buffer, first, Len(buffer)),
              startupDone |-> TRUE, syncLost |-> FALSE]
        ELSE IF Len(buffer) > Retain
        THEN [stream EXCEPT !.buffer = SubSeq(@, Len(@) - Retain + 1, Len(@))]
        ELSE stream

-----------------------------------------------------------------------------
(* Groups: what an event makes of the group of the connection              *)

\* What copy data is taken for, by the first byte of the payload alone
\* (parseClientCopyData, parseServerCopyData).
CopyType(dir, first) ==
    CASE dir = "client" /\ first = "r" -> "StandbyStatusUpdate"
      [] dir = "client" /\ first = "h" -> "HotStandbyFeedback"
      [] dir = "server" /\ first = "w" -> "XLogData"
      [] dir = "server" /\ first = "k" -> "PrimaryKeepaliveMessage"
      [] OTHER -> "CopyData"

ReplicationData == {"StandbyStatusUpdate", "HotStandbyFeedback", "XLogData",
                    "PrimaryKeepaliveMessage"}

\* The type of a message.
ReadAs(c, m) == IF c[m].type = "CopyData" THEN CopyType(c[m].dir, c[m].first) ELSE c[m].type

ActiveQueryGroup == IF conn.current # NoGroup THEN conn.current ELSE "sql"
ActiveGroup == IF conn.copy # NoGroup THEN conn.copy ELSE ActiveQueryGroup

\* The group of an event, and the current and the copy group after it.
Sets(group, current, copy) == [group |-> group, current |-> current, copy |-> copy]
Keeps(group) == Sets(group, conn.current, conn.copy)

(* applyStartupState and applyClientEventState.                            *)
ClientGroups(type) ==
    CASE type \in Startups \union {"Terminate"} -> Sets("config", "config", NoGroup)
      [] type = "PasswordMessage"  -> Keeps("config")
      [] type = "Query"            -> Sets("sql", "sql", NoGroup)
      [] type = "CopyQuery"        -> Sets("sql", "sql", "sql")
      [] type = "IdentifySystem"   -> Sets("config", "config", NoGroup)
      [] type \in {"StartReplication", "BaseBackup"} -> Sets("config", "config", "wal")
      [] type \in ReplicationData -> Sets("wal", "wal", "wal")
      [] type = "CopyDone" -> Sets(ActiveGroup, conn.current, NoGroup)
      [] OTHER -> Keeps(ActiveGroup)

\* The end of a command leaves the groups as they are.
ServerGroupsSticky(type) ==
    CASE type = "Authentication" -> Keeps("config")
      [] type \in {"CopyInResponse", "CopyOutResponse"} ->
            Sets(ActiveQueryGroup, conn.current, ActiveQueryGroup)
      [] type \in ReplicationData \union {"CopyBothResponse"} -> Sets("wal", "wal", "wal")
      [] type = "CopyData" -> Keeps(ActiveGroup)
      [] OTHER -> Keeps(ActiveQueryGroup)

(* applyServerEventState.  A CopyDone of the server has no name of its own *)
(* (serverMessageName), so that it takes the last branch.                  *)
ServerGroups(type) ==
    CASE type = "Authentication" -> Keeps("config")
      [] type \in {"CopyInResponse", "CopyOutResponse"} ->
            Sets(ActiveQueryGroup, conn.current, ActiveQueryGroup)
      [] type \in ReplicationData \union {"CopyBothResponse"} -> Sets("wal", "wal", "wal")
      [] type = "CopyData" -> Keeps(ActiveGroup)
      [] type = "ReadyForQuery" -> Sets(ActiveQueryGroup, "sql", NoGroup)
      [] OTHER -> Keeps(ActiveQueryGroup)

(* classifyTruncatedEventGroup: the groups of the connection stay.  Most   *)
(* messages have no name of their own when they are cut; a command is known*)
(* by its words, and copy data by its first byte, if they were captured.   *)
TruncatedGroup(type, payloadSeen) ==
    CASE type \in {"Query", "CopyQuery"} -> "sql"
      [] type \in ReplicationCommand \union {"IdentifySystem"} ->
            IF payloadSeen THEN "config" ELSE "sql"
      [] type = "CopyBothResponse" -> "wal"
      [] type \in ReplicationData /\ payloadSeen -> "wal"
      [] OTHER -> ActiveGroup

-----------------------------------------------------------------------------
(* Feed                                                                    *)

\* An event: the message it was made from (0 if none) and how much of it.
EventOf(m, made, group, session) ==
    [m |-> m, made |-> made, group |-> group, session |-> session]

ErrorEvent(group) == EventOf(0, "error", group, conn.session)

\* No startup is expected of a new connection.
StreamForStarted(dir) ==
    IF streams[dir].made THEN streams[dir]
    ELSE [NoStream EXCEPT !.made = TRUE, !.startupDone = TRUE]

StreamFor(dir) ==
    IF streams[dir].made THEN streams[dir]
    ELSE [NoStream EXCEPT !.made = TRUE,
                          !.startupDone = (dir = "server" \/ conn.startupSeen)]

\* No limit on what is kept of a stream.
NeverTooLong(buffer) == FALSE

TooLong(buffer) == Len(buffer) > MaxBuffer

SetStream(dir, stream) == streams' = [streams EXCEPT ![dir] = stream]

(* The chunk is appended; a buffer that is too long is thrown away.        *)
Feed(dir, data, truncated) ==
    LET stream == [StreamFor(dir) EXCEPT !.buffer = @ \o data] IN
    IF TooLong(stream.buffer)
    THEN /\ SetStream(dir, [stream EXCEPT !.buffer = <<>>, !.syncLost = TRUE])
         /\ events' = Append(events, ErrorEvent(ActiveGroup))
         /\ UNCHANGED <<conn, feeding>>
    ELSE /\ SetStream(dir, IF stream.syncLost THEN Resync(dir, stream) ELSE stream)
         /\ feeding' = [dir |-> dir, truncated |-> truncated]
         /\ UNCHANGED <<conn, events>>

Feeding == feeding # NoChunk
Stream == streams[feeding.dir]
Length == HeaderLength(feeding.dir, Stream)
HasHeader == Len(Stream.buffer) >= 2

Complete == HasHeader /\ Length > 0 /\ Len(Stream.buffer) >= Length
Invalid == HasHeader /\ Length = 0

\* A message the parser reads as what it is.
Readable(m, starting) == m # 0 /\ (TypeOf(m) \in Startups => starting)

\* What the parser makes of a message, by its code and the first byte of its payload.
TypeRead(m, starting) ==
    IF Readable(m, starting) THEN ReadAs(conversation, m)
    ELSE IF starting THEN "Startup" ELSE "unknown"

(* parseBuffered, one turn of the loop: a whole message.                   *)
TakeMessage ==
    LET dir == feeding.dir
        taken == SubSeq(Stream.buffer, 1, Length)
        rest == SubSeq(Stream.buffer, Length + 1, Len(Stream.buffer))
        m == MessageAt(Stream.buffer, 1)
        starting == InStartup(dir, Stream)
        readable == Readable(m, starting)
        type == TypeRead(m, starting)
        groups == IF dir = "client" THEN ClientGroups(type) ELSE ServerGroups(type)
        session == IF ~starting THEN conn.session
                   ELSE IF readable /\ type = "Startup" THEN "user" ELSE "none"
        made == IF ~readable THEN "noise"
                ELSE IF taken = CellsOf(m) THEN "whole" ELSE "spliced"
    IN  /\ Feeding /\ Complete
        /\ SetStream(dir, [Stream EXCEPT !.buffer = rest,
                                         !.startupDone = @ \/ starting])
        /\ conn' = [session |-> session, startupSeen |-> conn.startupSeen \/ starting,
                    current |-> groups.current, copy |-> groups.copy]
        /\ events' = Append(events, EventOf(m, made, groups.group, session))
        /\ owed' = IF made = "whole" THEN owed \ {m} ELSE owed
        /\ UNCHANGED feeding

(* An invalid length: the search may find a message further on, else all   *)
(* that is buffered is thrown away.                                        *)
FindSync ==
    LET found == Resync(feeding.dir, [Stream EXCEPT !.syncLost = TRUE]) IN
    /\ Feeding /\ Invalid
    /\ IF found.syncLost
       THEN /\ SetStream(feeding.dir, [found EXCEPT !.buffer = <<>>])
            /\ events' = Append(events, ErrorEvent(
                 IF InStartup(feeding.dir, Stream) THEN "config" ELSE ActiveGroup))
       ELSE /\ SetStream(feeding.dir, found)
            /\ UNCHANGED events
    /\ UNCHANGED <<conn, feeding, owed>>

\* What is left of a truncated chunk stays in the buffer.
AfterTruncationKept(stream) == stream

AfterTruncation(stream) == [stream EXCEPT !.buffer = <<>>, !.syncLost = TRUE]

\* decodeTruncatedEvent: the message the chunk was cut in, if its header is there.
TruncatedEvent ==
    LET m == IF HasHeader THEN MessageAt(Stream.buffer, 1) ELSE 0 IN
    IF InStartup(feeding.dir, Stream) \/ ~HasHeader \/ Length = 0
    THEN ErrorEvent(ActiveGroup)
    ELSE IF m = 0 \/ TypeOf(m) \in Startups
    THEN EventOf(m, "noise", ActiveGroup, conn.session)
    ELSE EventOf(m, "cut", TruncatedGroup(ReadAs(conversation, m), Len(Stream.buffer) > 2),
                 conn.session)

(* Nothing more to parse: Feed returns.                                    *)
Return ==
    /\ Feeding /\ ~Complete /\ ~Invalid
    /\ feeding' = NoChunk
    /\ IF feeding.truncated
       THEN /\ events' = Append(events, TruncatedEvent)
            /\ SetStream(feeding.dir, AfterTruncation(Stream))
       ELSE UNCHANGED <<events, streams>>
    /\ UNCHANGED <<conn, owed>>

Parse ==
    /\ TakeMessage \/ FindSync \/ Return
    /\ UNCHANGED <<conversation, noise, pos, missing, faults>>

-----------------------------------------------------------------------------
(* The connection                                                          *)

\* The backend reads or writes n cells.  The client waits for the answer to
\* SSLRequest, a byte that is sent without a traced call.
Call(n) ==
    /\ ~Feeding
    /\ pos + n - 1 <= End(conversation)
    /\ \A p \in pos..(pos + n - 1) : DirOf(p) = DirOf(pos)
    /\ \A p \in pos..(pos + n - 2) :
          TypeOf(MessageOf(p)) = "SSLRequest" => MessageOf(p + 1) = MessageOf(p)
    /\ pos' = pos + n

\* The messages that lie in k cells from pos on.
Whole(k) == {m \in DOMAIN conversation :
                conversation[m].at >= pos /\ Follows(conversation, m) <= pos + k}

\* Its first k cells are captured.
Chunk(n, k) ==
    LET dir == DirOf(pos)
        data == Run(pos, k)
    IN  /\ Call(n)
        /\ Feed(dir, data, k < n)
        /\ faults' = faults + (IF k < n THEN 1 ELSE 0)
        /\ owed' = IF missing \/ TooLong(StreamFor(dir).buffer \o data) THEN {}
                   ELSE owed \union Whole(k)
        /\ UNCHANGED <<conversation, noise, missing>>

\* The ring buffer was full, or a return was not caught.
MissingChunk(n) ==
    /\ Call(n)
    /\ faults < MaxFaults
    /\ missing' = TRUE /\ owed' = {}
    /\ faults' = faults + 1
    /\ UNCHANGED <<conversation, noise, conn, streams, feeding, events>>

Init ==
    /\ conversation \in Conversations
    /\ noise \in BOOLEAN
    /\ pos \in 1..End(conversation)
    /\ conn = [session |-> "none", startupSeen |-> FALSE, current |-> NoGroup, copy |-> NoGroup]
    /\ streams = [dir \in Direction |-> NoStream]
    /\ feeding = NoChunk
    /\ events = <<>>
    /\ missing = FALSE
    /\ faults = IF pos = 1 THEN 0 ELSE 1
    /\ owed = {}

Next ==
    \/ \E n \in 1..MaxChunk :
         \/ \E k \in 1..n : (k < n => faults < MaxFaults) /\ Chunk(n, k)
         \/ MissingChunk(n)
    \/ Parse

Spec == Init /\ [][Next]_vars

-----------------------------------------------------------------------------
(* The variables have their types, and no direction keeps more bytes than  *)
(* the buffer limit (parser.go, Feed).                                     *)
TypeOK ==
    /\ noise \in BOOLEAN
    /\ pos \in 1..(End(conversation) + 1)
    /\ conn \in [session : {"none", "user"}, startupSeen : BOOLEAN,
                 current : Group \union {NoGroup}, copy : Group \union {NoGroup}]
    /\ streams \in [Direction -> [made : BOOLEAN, buffer : Seq(Nat), startupDone : BOOLEAN,
                                  syncLost : BOOLEAN]]
    /\ \A d \in Direction : Len(streams[d].buffer) <= MaxBuffer
    /\ feeding \in [dir : Direction, truncated : BOOLEAN] \union {NoChunk}
    /\ events \in Seq([m : 0..Len(conversation),
                       made : {"whole", "cut", "error", "noise", "spliced"},
                       group : Group, session : {"none", "user"}])
    /\ missing \in BOOLEAN /\ faults \in 0..MaxFaults
    /\ owed \subseteq DOMAIN conversation

\* Nothing asks for encryption, and no other backend comes.
StartsOnce ==
    \A m \in DOMAIN conversation : /\ TypeOf(m) # "SSLRequest"
                                   /\ TypeOf(m) = "Startup" => m = 1

\* A chunk may not fit after what there is of a message.
Resets == \E m \in DOMAIN conversation : Size(m) - 1 + MaxChunk > MaxBuffer

\* Messages all of whose cells have gone by.
Passed == {m \in DOMAIN conversation : Follows(conversation, m) <= pos}

(* However the bytes are cut into chunks, when none is missing or cut the  *)
(* events are the messages, each whole and in order, and those after the   *)
(* startup carry its session (parser.go, Feed; parser_test.go,             *)
(* TestParserReassemblesAcrossChunks).  A connection with a second startup *)
(* packet and a message larger than the buffer are excluded.               *)
EventsAreMessages ==
    ~Feeding /\ faults = 0 /\ StartsOnce /\ ~Resets =>
        /\ Len(events) = Cardinality(Passed)
        /\ \A i \in DOMAIN events : /\ events[i].m = i /\ events[i].made = "whole"
                                    /\ events[i].session = "user"

\* What the parser takes for something else: a row of a COPY that begins like replication
\* data, and the answer to BASE_BACKUP, which sets the group of the copy back to that of
\* the command.
Misleading(c, n) ==
    \/ c[n].group # "wal" /\ ReadAs(c, n) \in ReplicationData
    \/ BeginsBackup(c, n)

\* Something misleading came before n or is n, its command has not ended before n,
\* and none has begun since.
Misled(c, n) ==
    \E m \in 1..n : /\ Misleading(c, m)
                    /\ \A k \in m..(n - 1) : c[k].type # "ReadyForQuery"
                    /\ \A k \in (m + 1)..n : GroupOfType(c[k].type) = "none"

(* Then, too, each message has the group of the command it belongs to: the *)
(* copy messages of a replication stream that of WAL, those of a COPY after*)
(* it that of SQL.  When the parser is misled its mistake ends with the    *)
(* command: ReadyForQuery, or the next command, sets the groups right      *)
(* (group.go).                                                             *)
GroupsFollowCommands ==
    faults = 0 /\ StartsOnce /\ ~Resets =>
        \A i \in DOMAIN events :
            \/ events[i].group = conversation[events[i].m].group
            \/ Misled(conversation, events[i].m)

(* A chunk that was cut, a buffer that was reset, or a beginning that was  *)
(* not seen never makes a message up: unless a chunk is missing or the data*)
(* of a message look like messages, an event of a message is that message, *)
(* and no message has two (parser.go, tryResync).                          *)
NothingIsMadeUp ==
    ~missing /\ ~noise /\ StartsOnce =>
        \A i \in DOMAIN events :
            /\ events[i].made \in {"whole", "cut", "error"}
            /\ events[i].m # 0 => \A j \in 1..(i - 1) : events[j].m < events[i].m

(* Under the same conditions the parser finds its way back: a message that *)
(* was captured in one chunk is passed over only if its code is one that   *)
(* the search does not know, wherever in the chunk it begins (parser.go,   *)
(* findRegularMessageStart, isKnownMessageCode).                           *)
WholeMessagesAreSeen ==
    ~Feeding /\ ~missing /\ ~noise /\ StartsOnce => \A m \in owed : Unlisted(m)

(* The startup of a connection is known, and with it the session, when all *)
(* of it was captured (parser_test.go:41, "expected Startup, got %s"), be  *)
(* it after an SSLRequest or of a backend with a pid that was used before. *)
(* After the first startup packet the parser takes any for a regular       *)
(* message.                                                                *)
StartupIsSeen ==
    ~Feeding /\ faults = 0 =>
        \A m \in Passed : TypeOf(m) = "Startup" =>
            \E i \in DOMAIN events : events[i].m = m /\ events[i].made = "whole"

=============================================================================
