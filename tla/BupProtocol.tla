---------------------------- MODULE BupProtocol ----------------------------
(***************************************************************************)
(* The vocabulary of the backup service: who talks, on which topics, and   *)
(* what the payloads say.  A client is named by its IPv4 address, which is *)
(* also the name of its private channel.  The texts on the wire are        *)
(* abstracted to typed records: only what the two programs test for (the   *)
(* leading "~", the mark "ssh-rsa" anywhere in the text, the number of     *)
(* words) is kept.                                                         *)
(***************************************************************************)
EXTENDS Naturals, Sequences

CONSTANTS Client,      \* the clients, each the IPv4 address it was started with
          Server,      \* the one server process
          LocalIp,     \* the server's own address (a member of Client or not)
          Public,      \* the public channel, "subscribersList"
          Path,        \* the typed lines that start with "~"
          MarkedPath,  \* those of them that contain "ssh-rsa"
          Word,        \* words a user types at the first prompt
          InfoLine,    \* the lines typed there, as sequences of words
          NoUser,      \* the empty user name
          Nobody,      \* the publisher of a message whose session is gone
          Null         \* the null const_message_ptr, and an absent message

ASSUME NamesAreDistinct ==
  /\ Server \notin Client
  /\ Public \notin Client
  /\ Nobody \notin Client \cup {Server}
  /\ NoUser \notin Word
  /\ InfoLine \subseteq Seq(Word)

ASSUME MarkedPathsArePaths == MarkedPath \subseteq Path

Session == Client \cup {Server}
Topic   == Client \cup {Public}

SubscribeBody(ip, line) == [type |-> "subscribe", ip |-> ip, line |-> line]
KeyBody                 == [type |-> "key"]
EmptyBody               == [type |-> "empty"]
TextBody(marked)        == [type |-> "text", marked |-> marked]
BackupBody(path)        == [type |-> "backup", path |-> path]
ReplyBody(path, ok)     == [type |-> "reply", path |-> path, ok |-> ok]

PublicBody  == [type : {"subscribe"}, ip : Client, line : InfoLine]
PrivateBody ==
  [type : {"key", "empty"}]
    \cup [type : {"text"}, marked : BOOLEAN]
    \cup [type : {"backup"}, path : Path]
    \cup [type : {"reply"}, path : Path, ok : BOOLEAN]

\* isMsgTypeOf("ssh-rsa", payload): the key, but as well any line and any reply
\* that quotes the mark.
HasMark(body) ==
  \/ body.type = "key"
  \/ body.type = "text" /\ body.marked
  \/ body.type \in {"backup", "reply"} /\ body.path \in MarkedPath

Message ==
  [topic : {Public}, body : PublicBody, from : Session \cup {Nobody}]
    \cup [topic : Client, body : PrivateBody, from : Session \cup {Nobody}]

ASSUME NullIsNothingElse ==
  Null \notin Message \cup Topic \cup PrivateBody \cup InfoLine

\* utils::client(msg): the user is kept only when the text is "ip user".
User(line) == IF Len(line) = 1 THEN line[1] ELSE NoUser

\* An entry of the server's m_clients; the backup directory is named by the ip.
Registration == [ip : Client, user : Word \cup {NoUser}, backupPath : Client]

NewRegistration(body) ==
  [ip |-> body.ip, user |-> User(body.line), backupPath |-> body.ip]

\* A shell command of the server: copy path from host into the directory dir.
Command == [tool : {"cp", "scp"}, user : Word \cup {NoUser},
            host : Client, path : Path, dir : Client]
=============================================================================
