------------------------------ MODULE Options -------------------------------
(***************************************************************************)
(* The objects an application fills in for the C library: the options of   *)
(* connect and disconnect, will and ssl options, the options of responses, *)
(* messages, lists of properties, single properties and collections of     *)
(* strings.  Each has C++ members and a C struct whose pointers lead into  *)
(* the members, or into what they share, and which the C library reads.    *)
(* An operator gives an object that was made or changed, an action is the  *)
(* constructor, assignment, setter or destructor that does it somewhere.   *)
(*                                                                         *)
(* Numbers, flags and the contents of strings are left out.                *)
(*                                                                         *)
(* A definition commented "Faulty" is a variant with a plausible mistake;  *)
(* nothing uses it, it shows that the properties would notice.             *)
(***************************************************************************)
EXTENDS Naturals, FiniteSets

CONSTANTS Object,      \* addresses of objects, used again once free
          Block,       \* what malloc() returns for properties
          Shared,      \* buffers of some length, and tokens, both shared
          Empty,       \* a shared buffer of length 0
          SslString,   \* the strings of ssl_options but caPath_
          Text,        \* contents of strings; an empty string is Null
          Scenario,    \* bounds: how many objects of which classes one
                       \* behaviour has, and if it uses tokens and buffers
          Null         \* nullptr

Class == {"will", "ssl", "connect", "message", "disconnect", "response",
          "list", "property", "strings"}

ASSUME OptionsAssumption ==
  /\ Null \notin Object \cup Block \cup Shared \cup Text \cup {Empty}
  /\ Null \notin Object \X Text
  /\ Empty \notin Shared
  /\ Object \cap Block = {}
  /\ Scenario \subseteq [Class \cup {"token", "buffer"} -> Nat]

VARIABLES obj,      \* the object at each address
          heap,     \* the blocks that are allocated
          used      \* the bounds of this behaviour

vars == <<obj, heap, used>>

\* buffer_ref: a shared pointer to a buffer that nobody changes.
Ref == Shared \cup {Empty, Null}

\* c_str() of a string that lives in an object: it is valid while the object
\* has this text.
Pointer == {Null} \cup (Object \X Text)

At(i, t) == IF t = Null THEN Null ELSE <<i, t>>

\* All classes have the same record.  The members whose names begin with c are
\* the pointers in the C struct.  Those of a connect_options object's will_ and
\* ssl_ stand beside its own.  An array of properties is known by its block.
\* cProps is a copy of the struct with this array, or (of connect_options) the
\* address of the object whose props_ it is.  The subOpts_ of a response_options
\* object are its coll, and the array in its struct is its cArr.
\* History: moved, whether the object was moved from and not assigned since;
\* copied, whether it was made or assigned from another.
Record ==
  [class : Class \cup {"none"}, moved : BOOLEAN, copied : BOOLEAN,
   topic : Ref, cTopic : Ref, payload : Ref, cPayload : Ref,
   str : [SslString -> Text \cup {Null}], cStr : [SslString -> Pointer],
   caPath : Text \cup {Null}, cCaPath : Pointer,
   cWill : Object \cup {Null}, cSsl : Object \cup {Null},
   willProps : Block \cup {Null}, cWillProps : Object \cup {Null},
   userName : Ref, cUserName : Ref, password : Ref, cPassword : Ref,
   tok : Ref, cTok : Ref,
   servers : Object \cup {Null}, cServers : Pointer,
   props : Block \cup {Null}, cProps : Block \cup Object \cup {Null},
   coll : Text \cup {Null}, cArr : Pointer,
   value : Block \cup {Null}]

Blank(class) ==
  [class |-> class, moved |-> FALSE, copied |-> FALSE,
   topic |-> Null, cTopic |-> Null, payload |-> Null, cPayload |-> Null,
   str |-> [s \in SslString |-> Null], cStr |-> [s \in SslString |-> Null],
   caPath |-> Null, cCaPath |-> Null, cWill |-> Null, cSsl |-> Null,
   willProps |-> Null, cWillProps |-> Null,
   userName |-> Null, cUserName |-> Null,
   password |-> Null, cPassword |-> Null, tok |-> Null, cTok |-> Null,
   servers |-> Null, cServers |-> Null, props |-> Null, cProps |-> Null,
   coll |-> Null, cArr |-> Null, value |-> Null]

TypeOK ==
  /\ obj \in [Object -> Record]
  /\ heap \subseteq Block
  /\ used \in Scenario
  /\ \A i \in Object : obj[i].class = "none" => obj[i] = Blank("none")

Init ==
  /\ obj = [i \in Object |-> Blank("none")]
  /\ heap = {}
  /\ used \in Scenario

Is(i, class) == obj[i].class = class

\* There is room at i for one more object of this class.
Free(i, class) ==
  Is(i, "none") /\ Cardinality({j \in Object : Is(j, class)}) < used[class]

\* The blocks that an object's destructor frees.
Blocks(o) == {o.props, o.value, o.willProps} \ {Null}

\* obj[i] becomes o, freed goes, and taken (or nothing, if it is Null) comes.
Put(i, o, freed, taken) ==
  /\ obj' = [obj EXCEPT ![i] = o]
  /\ heap' = (heap \ freed) \cup (taken \ {Null})
  /\ UNCHANGED used

Change(i, o) == Put(i, o, {}, {})

\* MQTTProperties_copy(): a deep copy of list l, in block b unless l is empty.
CopyIn(l, b) == IF l = Null THEN Null ELSE b
Fresh == Block \ heap

-----------------------------------------------------------------------------
(* will_options                                                            *)

\* Faulty: nullptr is passed on.
WillSetPayloadRaw(o, r) == [o EXCEPT !.payload = r, !.cPayload = r]

WillSetTopic(o, r) ==
  LET t == IF r = Null THEN Empty ELSE r
  IN  [o EXCEPT !.topic = t, !.cTopic = t]

WillSetPayload(o, r) ==
  LET p == IF r = Null THEN Empty ELSE r
  IN  [o EXCEPT !.payload = p, !.cPayload = p]

DefaultWill(class) == WillSetTopic(Blank(class), Null)

\* Copies, moves and assignments use the setters, and forget the properties.
WillFrom(o, src) == WillSetPayload(WillSetTopic(o, src.topic), src.payload)

CreateWill(i) ==
  /\ Free(i, "will")
  /\ \/ Change(i, DefaultWill("will"))
     \/ \E t, p \in Ref :
          Change(i, WillFrom(Blank("will"), [topic |-> t, payload |-> p]))
     \/ \E m \in Object : Is(m, "message") /\
          Change(i, WillFrom(Blank("will"),
            [topic   |-> IF obj[m].topic = Null THEN Empty ELSE obj[m].topic,
             payload |-> IF obj[m].payload = Null THEN Empty
                                                  ELSE obj[m].payload]))

SetWillTopic(i, r) == Is(i, "will") /\ Change(i, WillSetTopic(obj[i], r))
SetWillPayload(i, r) == Is(i, "will") /\ Change(i, WillSetPayload(obj[i], r))

-----------------------------------------------------------------------------
(* ssl_options                                                             *)

\* update_c_struct(): every string but caPath_
SslUpdate(i, o) == [o EXCEPT !.cStr = [s \in SslString |-> At(i, o.str[s])]]

\* Copies, moves and assignments: the C struct, the strings, and an update.
SslFrom(i, o, src) ==
  SslUpdate(i, [o EXCEPT !.str = src.str, !.cCaPath = src.cCaPath])

NewSsl(i, str) == SslUpdate(i, [Blank("ssl") EXCEPT !.str = str])

CreateSsl(i) ==
  /\ Free(i, "ssl")
  /\ \E str \in [SslString -> Text \cup {Null}] : Change(i, NewSsl(i, str))

WithString(i, o, s, t) == [o EXCEPT !.str[s] = t, !.cStr[s] = At(i, t)]

SetSslString(i, s, t) == Is(i, "ssl") /\ Change(i, WithString(i, obj[i], s, t))

SetCaPath(i, t) ==
  /\ Is(i, "ssl")
  /\ Change(i, [obj[i] EXCEPT !.caPath = t, !.cCaPath = At(i, t)])

-----------------------------------------------------------------------------
(* connect_options                                                         *)

\* c_str(), and the same for passwords and payloads: nothing if empty.
CStr(r) == IF r = Empty THEN Null ELSE r

\* will_.props_ was never assigned: it is empty, and so none are passed on.
SetWill(i, o, will) ==
  [WillFrom(o, will) EXCEPT !.cWill = i,
     !.cWillProps = IF o.willProps = Null THEN Null ELSE i]

SetSsl(i, o, ssl) == [SslFrom(i, o, ssl) EXCEPT !.cSsl = i]

SetUserName(o, r) == [o EXCEPT !.userName = r, !.cUserName = CStr(r)]
SetPassword(o, r) == [o EXCEPT !.password = r, !.cPassword = CStr(r)]

\* opts_ = opt.opts_: all the pointers, those of will_ and ssl_ apart.
CopyStruct(o, src) ==
  [o EXCEPT !.cWill = src.cWill, !.cWillProps = src.cWillProps,
            !.cSsl = src.cSsl, !.cTok = src.cTok,
            !.cServers = src.cServers, !.cProps = src.cProps]

\* Faulty: the pointer to the will stays the source's.
ConnectFromKeepsWill(i, o, src) ==
  LET s == IF src.cSsl = Null THEN CopyStruct(o, src)
                              ELSE SetSsl(i, CopyStruct(o, src), src)
  IN  SetPassword(SetUserName(s, src.userName), src.password)

\* Copy constructor and both assignments.
ConnectFrom(i, o, src) ==
  LET c == CopyStruct(o, src)
      w == IF src.cWill = Null THEN c ELSE SetWill(i, c, src)
      s == IF src.cSsl = Null THEN w ELSE SetSsl(i, w, src)
  IN  SetPassword(SetUserName(s, src.userName), src.password)

\* The move constructor moves will_ and ssl_ also if they are not in use.
ConnectMoved(i, src) ==
  LET c == CopyStruct(Blank("connect"), src)
      m == SslFrom(i, WillFrom(c, src), src)
      w == IF src.cWill = Null THEN m
           ELSE [m EXCEPT !.cWill = i, !.cWillProps = i]
      s == IF src.cSsl = Null THEN w ELSE [w EXCEPT !.cSsl = i]
  IN  SetPassword(SetUserName(s, src.userName), src.password)

CreateConnect(i) ==
  /\ Free(i, "connect")
  /\ \/ Change(i, DefaultWill("connect"))
     \/ /\ used["buffer"] > 0
        /\ \E u, p \in Ref :
             Change(i, SetPassword(SetUserName(DefaultWill("connect"), u), p))

SetConnectWill(i, j) ==
  /\ Is(i, "connect")
  /\ \/ Is(j, "will") /\ Change(i, SetWill(i, obj[i], obj[j]))
     \/ Is(j, "message") /\ Change(i, SetWill(i, obj[i], obj[j]))

SetConnectSsl(i, j) ==
  /\ Is(i, "connect") /\ Is(j, "ssl")
  /\ Change(i, SetSsl(i, obj[i], obj[j]))

SetCredentials(i, r) ==
  /\ Is(i, "connect") /\ used["buffer"] > 0
  /\ \/ Change(i, SetUserName(obj[i], r))
     \/ Change(i, SetPassword(obj[i], r))

\* set_token() of connect_options and of disconnect_options
SetToken(i, t) ==
  /\ Is(i, "connect") \/ Is(i, "disconnect")
  /\ used["token"] > 0
  /\ Change(i, [obj[i] EXCEPT !.tok = t, !.cTok = t])

SetServers(i, j) ==
  /\ Is(i, "connect")
  /\ \/ /\ j = Null
        /\ Change(i, [obj[i] EXCEPT !.servers = Null, !.cServers = Null])
     \/ /\ j # Null /\ Is(j, "strings")
        /\ Change(i, [obj[i] EXCEPT !.servers = j, !.cServers = obj[j].cArr])

-----------------------------------------------------------------------------
(* message and disconnect_options                                          *)

MessageSetPayload(o, r) == [o EXCEPT !.payload = r, !.cPayload = CStr(r)]

\* The list is a copy of that in a message from the C library.
NewMessage(t, p, b) ==
  MessageSetPayload([Blank("message") EXCEPT
                       !.topic = t, !.props = b, !.cProps = b], p)

CreateMessage(i) ==
  /\ Free(i, "message")
  /\ \E t, p \in Ref, b \in Fresh \cup {Null} :
       Put(i, NewMessage(t, p, b), {}, {b})

\* The test is of the old topic, where will_options tests the new one.
SetMessageTopic(i, r) ==
  /\ Is(i, "message")
  /\ Change(i, [obj[i] EXCEPT !.topic = IF @ = Null THEN Empty ELSE r])

SetMessagePayload(i, r) ==
  Is(i, "message") /\ Change(i, MessageSetPayload(obj[i], r))

ClearPayload(i) == SetMessagePayload(i, Null)

\* Copies and assignments: the C struct with its list, and no list.
MessageFrom(o, src) ==
  MessageSetPayload([o EXCEPT !.topic = src.topic, !.cProps = src.cProps],
                    src.payload)

CreateDisconnect(i) ==
  Free(i, "disconnect") /\ Change(i, Blank("disconnect"))

\* Again the C struct with its list, and no list.
DisconnectFrom(o, src) ==
  [o EXCEPT !.tok = src.tok, !.cTok = src.cTok, !.cProps = src.cProps]

-----------------------------------------------------------------------------
(* response_options and delivery_response_options                          *)

SetContext(o, t) == [o EXCEPT !.tok = t, !.cTok = t]

NewResponse(t) == SetContext(Blank("response"), t)

CreateResponse(i) ==
  /\ Free(i, "response")
  /\ \E t \in Shared \cup {Null} : Change(i, NewResponse(t))

SetResponseToken(i, t) == Is(i, "response") /\ Change(i, SetContext(obj[i], t))

\* For a subscription to many topics: t stands for the array.
SetSubscribeOptions(i, t) ==
  /\ Is(i, "response")
  /\ Change(i, [obj[i] EXCEPT !.coll = t, !.cArr = At(i, t)])

\* The implicit copies: the token and the C struct, with its pointer to the
\* token; the array is copied, the pointer to it stays.
ResponseFrom(o, src) ==
  [o EXCEPT !.tok = src.tok, !.cTok = src.cTok,
            !.coll = src.coll, !.cArr = src.cArr]

\* The implicit moves: the array itself passes on, and the pointer to it.
ResponseMoved(i, o, src) ==
  [ResponseFrom(o, src) EXCEPT !.cArr = At(i, src.coll)]

-----------------------------------------------------------------------------
(* properties, property and string_collection                              *)

NewList(b) == [Blank("list") EXCEPT !.props = b]

\* An array or a text that is fresh, or none.
CreateList(i) ==
  /\ Free(i, "list")
  /\ \E b \in Fresh \cup {Null} : Put(i, NewList(b), {}, {b})

\* MQTTProperties_add() may move the array.
Add(i) ==
  /\ Is(i, "list")
  /\ \E b \in (Fresh \cup {obj[i].props}) \ {Null} :
       Put(i, [obj[i] EXCEPT !.props = b], {obj[i].props}, {b})

Clear(i) ==
  /\ Is(i, "list")
  /\ Put(i, [obj[i] EXCEPT !.props = Null], {obj[i].props}, {})

\* From a number, from texts, or as get() makes it from an element of a list.
\* Left out: a number whose code is that of a text, whose value the code does
\* not initialise and the destructor frees.
NewProperty(b) == [Blank("property") EXCEPT !.value = b]

CreateProperty(i) ==
  /\ Free(i, "property")
  /\ \E b \in Fresh \cup {Null} : Put(i, NewProperty(b), {}, {b})

UpdateCArr(i, o) == [o EXCEPT !.cArr = At(i, o.coll)]

NewStrings(i, t) == UpdateCArr(i, [Blank("strings") EXCEPT !.coll = t])

CreateStrings(i) ==
  /\ Free(i, "strings")
  /\ \E t \in Text \cup {Null} : Change(i, NewStrings(i, t))

\* push_back() and clear()
ChangeStrings(i, t) ==
  /\ Is(i, "strings")
  /\ Change(i, UpdateCArr(i, [obj[i] EXCEPT !.coll = t]))

\* Faulty: the C struct keeps the array that is freed.
KeepStruct(i, o, b) ==
  IF o.class = "will" THEN [o EXCEPT !.willProps = b] ELSE [o EXCEPT !.props = b]

\* A will has no pointer to its list, a connect_options object has that of its
\* member, the others copy the struct.
WithList(i, o, b) ==
  CASE o.class = "will"    -> [o EXCEPT !.willProps = b]
    [] o.class = "connect" -> [o EXCEPT !.props = b, !.cProps = i]
    [] OTHER               -> [o EXCEPT !.props = b, !.cProps = b]

\* set_properties() copies the list, an rvalue too.
SetProperties(i, j) ==
  /\ obj[i].class \in {"will", "connect", "message", "disconnect"}
  /\ Is(j, "list")
  /\ \E b \in Fresh \cup Blocks(obj[i]) :
       LET c == CopyIn(obj[j].props, b)
       IN  Put(i, WithList(i, obj[i], c), Blocks(obj[i]), {c})

-----------------------------------------------------------------------------
(* Copies, moves, assignments and destructors                              *)

\* The object before its constructor copies another's members into it.
Default(class) ==
  IF class \in {"will", "connect"} THEN DefaultWill(class) ELSE Blank(class)

\* Faulty: two lists share an array.
ShareBlock(i, o, src, b) ==
  [o EXCEPT !.props = IF o.class = "list" THEN src.props ELSE @]

\* o, an object at i, made or assigned from src; b is for its block.
CopyOf(i, o, src, b) ==
  CASE o.class = "will"       -> WillFrom(o, src)
    [] o.class = "ssl"        -> SslFrom(i, o, src)
    [] o.class = "connect"    -> ConnectFrom(i, o, src)
    [] o.class = "message"    -> MessageFrom(o, src)
    [] o.class = "disconnect" -> DisconnectFrom(o, src)
    [] o.class = "response"   -> ResponseFrom(o, src)
    [] o.class = "list"       -> [o EXCEPT !.props = CopyIn(src.props, b)]
    [] o.class = "property"   -> [o EXCEPT !.value = CopyIn(src.value, b)]
    [] o.class = "strings"    -> UpdateCArr(i, [o EXCEPT !.coll = src.coll])

\* The same for a move: blocks pass on, and all else is as for a copy.
MoveOf(i, o, src) ==
  CASE o.class = "list"     -> [o EXCEPT !.props = src.props]
    [] o.class = "property" -> [o EXCEPT !.value = src.value]
    [] o.class = "response" -> ResponseMoved(i, o, src)
    [] OTHER                -> CopyOf(i, o, src, Null)

NoCredentials(o) ==
  [o EXCEPT !.userName = Null, !.password = Null, !.moved = TRUE]

\* What a move leaves of its source: a buffer_ref, a token_ptr or a string that
\* was moved is empty; pointers into it stay, except where the code resets them.
Remains(o) ==
  LET r == CASE o.class = "will" -> [o EXCEPT !.topic = Null, !.payload = Null]
             [] o.class = "ssl"  -> [o EXCEPT !.str = [s \in SslString |-> Null]]
             [] o.class = "connect" ->
                  NoCredentials([o EXCEPT !.topic = Null, !.payload = Null,
                                          !.str = [s \in SslString |-> Null]])
             [] o.class = "message" ->
                  [o EXCEPT !.topic = Null, !.payload = Null, !.cPayload = Null]
             [] o.class = "disconnect" -> [o EXCEPT !.tok = Null]
             [] o.class = "response" -> [o EXCEPT !.tok = Null, !.coll = Null]
             [] o.class = "list"       -> [o EXCEPT !.props = Null]
             [] o.class = "property"   -> [o EXCEPT !.value = Null]
             [] o.class = "strings"    -> [o EXCEPT !.coll = Null, !.cArr = Null]
  IN  [r EXCEPT !.moved = TRUE]

\* An object that has just been made or assigned from another.
Derived(o) == [o EXCEPT !.copied = TRUE, !.moved = FALSE]

CopyConstruct(i, j) ==
  /\ ~Is(j, "none") /\ Free(i, obj[j].class)
  /\ \E b \in Fresh \cup {Null} :
       LET c == Derived(CopyOf(i, Default(obj[j].class), obj[j], b))
       IN  /\ b = Null <=> Blocks(c) = {}
           /\ Put(i, c, {}, Blocks(c))

MoveConstruct(i, j) ==
  /\ ~Is(j, "none") /\ Free(i, obj[j].class)
  /\ obj' = [obj EXCEPT
       ![i] = Derived(IF Is(j, "connect") THEN ConnectMoved(i, obj[j])
                      ELSE MoveOf(i, Default(obj[j].class), obj[j])),
       ![j] = Remains(@)]
  /\ UNCHANGED <<heap, used>>

\* Faulty: the array that a list had stays allocated.
FreesNone(o) == {}

\* Only a list frees what it had.
Freed(o) == IF o.class = "list" THEN Blocks(o) ELSE {}

CopyAssign(i, j) ==
  /\ i # j /\ ~Is(i, "none") /\ Is(j, obj[i].class)
  /\ \E b \in Fresh \cup Freed(obj[i]) :
       LET c == Derived(CopyOf(i, obj[i], obj[j], b))
       IN  Put(i, c, Freed(obj[i]), Blocks(c))

\* set_will() and set_ssl() copy an rvalue too, so only the credentials of a
\* connect_options object are moved.
MoveAssign(i, j) ==
  /\ i # j /\ ~Is(i, "none") /\ Is(j, obj[i].class)
  /\ obj' = [obj EXCEPT
       ![i] = Derived(MoveOf(i, @, obj[j])),
       ![j] = IF @.class = "connect" THEN NoCredentials(@) ELSE Remains(@)]
  /\ heap' = heap \ Freed(obj[i])
  /\ UNCHANGED used

\* A collection lives as long as options hold it.
Destroy(i) ==
  /\ ~Is(i, "none")
  /\ \A j \in Object : obj[j].servers # i
  /\ Put(i, Blank("none"), Blocks(obj[i]), {})

Next ==
  \/ \E i \in Object :
       \/ CreateWill(i) \/ CreateSsl(i) \/ CreateConnect(i)
       \/ CreateMessage(i) \/ CreateDisconnect(i) \/ CreateResponse(i)
       \/ CreateList(i) \/ CreateProperty(i) \/ CreateStrings(i)
       \/ \E r \in Ref :
            \/ SetWillTopic(i, r) \/ SetWillPayload(i, r)
            \/ SetMessageTopic(i, r) \/ SetMessagePayload(i, r)
            \/ SetCredentials(i, r)
       \/ \E t \in Shared \cup {Null} : SetToken(i, t) \/ SetResponseToken(i, t)
       \/ \E t \in Text \cup {Null} :
            \/ SetCaPath(i, t)
            \/ ChangeStrings(i, t) \/ SetSubscribeOptions(i, t)
            \/ \E s \in SslString : SetSslString(i, s, t)
       \/ ClearPayload(i)
       \/ Add(i) \/ Clear(i)
       \/ SetServers(i, Null)
       \/ Destroy(i)
  \/ \E i, j \in Object :
       \/ SetConnectWill(i, j) \/ SetConnectSsl(i, j) \/ SetServers(i, j)
       \/ SetProperties(i, j)
       \/ CopyConstruct(i, j) \/ MoveConstruct(i, j)
       \/ CopyAssign(i, j) \/ MoveAssign(i, j)

Spec == Init /\ [][Next]_vars

-----------------------------------------------------------------------------
(* Properties                                                              *)

\* What a move leaves of these two is as good as new.
Usable(o) == ~o.moved \/ o.class \in {"message", "strings"}

\* The pointers that every constructor and assignment sees to lead to the
\* object's own members, and to what these members are now, however it was
\* made, copied, moved and assigned: a copy of connect options leads to its own
\* will and ssl options, and nothing outlives a string that was replaced.
HandledPointersOwn ==
  \A i \in Object :
    LET o == obj[i]
    IN  Usable(o) =>
          /\ {o.cWill, o.cSsl, o.cWillProps} \subseteq {Null, i}
          /\ o.class = "will" \/ o.cWill # Null =>
               o.cTopic = o.topic /\ o.cPayload = o.payload
          /\ o.class = "ssl" \/ o.cSsl # Null =>
               \A s \in SslString : o.cStr[s] = At(i, o.str[s])
          /\ o.cUserName = CStr(o.userName) /\ o.cPassword = CStr(o.password)
          /\ o.class = "message" => o.cPayload = CStr(o.payload)
          /\ o.class = "strings" => o.cArr = At(i, o.coll)

\* The C library gets a will with a topic and a payload, empty ones at least:
\* it must not get nullptr, although a default will has no payload and a moved
\* will or message has neither.
WillNeverNull ==
  \A i \in Object :
    obj[i].cWill # Null /\ ~obj[i].moved =>
      obj[i].cTopic # Null /\ obj[i].cPayload # Null

Owned == UNION {Blocks(obj[i]) : i \in Object}

\* No two objects own one array or text of properties, and what is owned is
\* allocated: no destructor frees a block that another frees or uses.
BlocksOwnedOnce ==
  /\ Owned \subseteq heap
  /\ \A i, j \in Object : i # j => Blocks(obj[i]) \cap Blocks(obj[j]) = {}

\* Blocks leak in one way only: an assignment overwrites the text of a property
\* object.  Lists free what they replace, clear or take along.
OnlyPropertiesLeak ==
  [][\A b \in (heap' \ Owned') \ (heap \ Owned) :
       \E i \in Object : obj[i].value = b /\ obj'[i].class = "property"]_vars

\* An object that was not made or assigned from another also has the pointers
\* that copies get wrong: to its CA path, its lists of properties and of subscribe
\* options, its token.
UncopiedIsWhole ==
  \A i \in Object :
    LET o == obj[i]
    IN  ~o.copied /\ ~o.moved =>
          /\ o.class = "ssl" => o.cCaPath = At(i, o.caPath)
          /\ o.class \in {"message", "disconnect"} => o.cProps = o.props
          /\ o.class = "connect" => o.cProps \in {Null, i}
          /\ o.class = "response" => o.cArr = At(i, o.coll)
          /\ o.cTok = o.tok

=============================================================================
