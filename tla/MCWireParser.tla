---------------------------- MODULE MCWireParser ----------------------------
(* Instances of WireParser for TLC.                                        *)
EXTENDS WireParser

Client(type, size, group) ==
    [dir |-> "client", type |-> type, first |-> "other", size |-> size, group |-> group]
Server(type, size, group) ==
    [dir |-> "server", type |-> type, first |-> "other", size |-> size, group |-> group]

\* Copy data that begins with a letter.
ClientData(first, size, group) == [Client("CopyData", size, group) EXCEPT !.first = first]
ServerData(first, size, group) == [Server("CopyData", size, group) EXCEPT !.first = first]

Beginning == <<Client("Startup", 3, "config"), Server("Authentication", 2, "config"),
               Client("PasswordMessage", 2, "config"), Server("ReadyForQuery", 3, "config")>>

\* The least a connection begins with.
ShortBeginning == <<Client("Startup", 2, "config"), Server("ReadyForQuery", 2, "config")>>

\* Queries, then the end.
Queries == Beginning \o
    <<Client("Query", 4, "sql"), Server("CommandComplete", 3, "sql"), Server("ReadyForQuery", 2, "sql"),
      Client("Sync", 2, "sql"), Client("Terminate", 2, "config")>>

\* A replication stream, stopped by the client, and a COPY after it.
Replication == ShortBeginning \o
    <<Client("StartReplication", 3, "config"), Server("CopyBothResponse", 2, "wal"),
      ServerData("w", 3, "wal"), ClientData("r", 2, "wal"),
      Client("CopyDone", 2, "wal"), Server("CopyDone", 2, "wal"),
      Server("ReadyForQuery", 2, "wal"), Client("Sync", 2, "sql"),
      Client("CopyQuery", 2, "sql"), Server("CopyInResponse", 2, "sql"), Client("CopyData", 3, "sql"),
      Client("CopyDone", 2, "sql"), Server("ReadyForQuery", 2, "sql")>>

\* A query larger than the buffer.
Large == <<Client("Startup", 2, "config"), Client("Query", 8, "sql"),
           Client("Query", 3, "sql"), Server("ReadyForQuery", 2, "sql")>>

\* A client that asks for encryption and starts without it.
Encrypted == <<Client("SSLRequest", 2, "config"), Client("Startup", 3, "config"),
               Client("Query", 3, "sql"), Server("ReadyForQuery", 2, "sql"),
               Client("Query", 4, "sql")>>

\* A base backup and its copy data.
Backup == ShortBeginning \o
    <<Client("IdentifySystem", 2, "config"), Server("CommandComplete", 2, "config"),
      Server("ReadyForQuery", 2, "config"), Client("BaseBackup", 2, "config"),
      Server("CopyOutResponse", 2, "wal"), Server("CopyData", 3, "wal"),
      Server("CopyDone", 2, "wal"), Server("ReadyForQuery", 2, "wal"),
      Client("Query", 2, "sql")>>

\* A backend ends, and a later one has its pid and address.
Reused == ShortBeginning \o
    <<Client("Terminate", 2, "config"), Client("Startup", 3, "config"),
      Client("Query", 3, "sql"), Server("ReadyForQuery", 2, "sql")>>

\* A replication command that fails.
Refused == ShortBeginning \o
    <<Client("StartReplication", 2, "config"), Server("ErrorResponse", 2, "config"),
      Server("ReadyForQuery", 2, "config"), Client("Sync", 2, "sql")>>

\* COPY in both directions, with rows that begin like replication data.
Rows == ShortBeginning \o
    <<Client("CopyQuery", 2, "sql"), Server("CopyInResponse", 2, "sql"),
      ClientData("r", 2, "sql"), Client("CopyData", 2, "sql"), Client("CopyDone", 2, "sql"),
      Server("ReadyForQuery", 2, "sql"), Client("Sync", 2, "sql"),
      Client("CopyQuery", 2, "sql"), Server("CopyOutResponse", 2, "sql"),
      ServerData("k", 3, "sql"), Server("CopyDone", 2, "sql"), Client("Query", 2, "sql")>>

\* Each message begins where the one before it ends.
Laid(script) ==
    LET At[m \in DOMAIN script] == IF m = 1 THEN 1 ELSE At[m - 1] + script[m - 1].size
    IN  [m \in DOMAIN script |->
            [dir |-> script[m].dir, type |-> script[m].type, first |-> script[m].first,
             size |-> script[m].size, group |-> script[m].group, at |-> At[m]]]

AllConversations ==
    {Laid(s) :
        s \in {Queries, Replication, Large, Encrypted, Backup, Reused, Refused, Rows}}

=============================================================================
