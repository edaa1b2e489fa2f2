--------------------------- MODULE OptionsProofs ----------------------------
(***************************************************************************)
(* Proofs about Options: its objects stay well formed, and no two of them  *)
(* own one block, for any number of objects and blocks.                    *)
(*                                                                         *)
(* Which block an object owns depends on its class (Shape), so that the    *)
(* many operators that leave the blocks alone need only be shown to do so  *)
(* (Keeps), and what is left are lists, properties and the copies of       *)
(* lists that other objects have.                                          *)
(***************************************************************************)
EXTENDS Options, TLAPS

\* An object of one class owns one kind of block.
Shape(o) ==
  /\ o.value # Null => o.class = "property"
  /\ o.willProps # Null => o.class = "will"
  /\ o.props # Null => o.class \in {"connect", "message", "disconnect", "list"}

\* n is o with other members, none of them about blocks.
Keeps(o, n) ==
  /\ n \in Record
  /\ n.class = o.class /\ n.value = o.value
  /\ n.willProps = o.willProps /\ n.props = o.props

-----------------------------------------------------------------------------
(* Members of records                                                      *)

LEMMA AtTyped ==
  ASSUME NEW i \in Object, NEW t \in Text \cup {Null}
  PROVE  At(i, t) \in Pointer
  BY DEF At, Pointer

LEMMA CStrTyped ==
  ASSUME NEW r \in Ref
  PROVE  CStr(r) \in Ref
  BY DEF CStr, Ref

LEMMA BlankTyped ==
  ASSUME NEW class \in Class \cup {"none"}
  PROVE  /\ Blank(class) \in Record
         /\ Blank(class).class = class /\ Blank(class).value = Null
         /\ Blank(class).willProps = Null /\ Blank(class).props = Null
         /\ Blank(class).topic = Null /\ Blank(class).payload = Null
  BY DEF Blank, Record, Ref, Pointer

LEMMA MembersTyped ==
  ASSUME NEW o \in Record
  PROVE  /\ o.class \in Class \cup {"none"}
         /\ {o.topic, o.cTopic, o.payload, o.cPayload, o.userName,
             o.cUserName, o.password, o.cPassword, o.tok, o.cTok} \subseteq Ref
         /\ {o.cCaPath, o.cServers, o.cArr} \subseteq Pointer
         /\ {o.cWill, o.cSsl, o.cWillProps, o.servers}
              \subseteq Object \cup {Null}
         /\ {o.willProps, o.props, o.value} \subseteq Block \cup {Null}
         /\ o.cProps \in Block \cup Object \cup {Null}
         /\ o.str \in [SslString -> Text \cup {Null}]
         /\ o.coll \in Text \cup {Null}
  BY DEF Record

\* One member is assigned.
LEMMA RefKeeps ==
  ASSUME NEW o \in Record, NEW r \in Ref
  PROVE  /\ Keeps(o, [o EXCEPT !.topic = r])
         /\ Keeps(o, [o EXCEPT !.cTopic = r])
         /\ Keeps(o, [o EXCEPT !.payload = r])
         /\ Keeps(o, [o EXCEPT !.cPayload = r])
         /\ Keeps(o, [o EXCEPT !.userName = r])
         /\ Keeps(o, [o EXCEPT !.cUserName = r])
         /\ Keeps(o, [o EXCEPT !.password = r])
         /\ Keeps(o, [o EXCEPT !.cPassword = r])
         /\ Keeps(o, [o EXCEPT !.tok = r])
         /\ Keeps(o, [o EXCEPT !.cTok = r])
<1>1. /\ Keeps(o, [o EXCEPT !.topic = r])
      /\ Keeps(o, [o EXCEPT !.cTopic = r])
      /\ Keeps(o, [o EXCEPT !.payload = r])
      /\ Keeps(o, [o EXCEPT !.cPayload = r])
  BY DEF Keeps, Record
<1>2. /\ Keeps(o, [o EXCEPT !.userName = r])
      /\ Keeps(o, [o EXCEPT !.cUserName = r])
      /\ Keeps(o, [o EXCEPT !.password = r])
      /\ Keeps(o, [o EXCEPT !.cPassword = r])
  BY DEF Keeps, Record
<1>3. /\ Keeps(o, [o EXCEPT !.tok = r])
      /\ Keeps(o, [o EXCEPT !.cTok = r])
  BY DEF Keeps, Record
<1> QED
  BY <1>1, <1>2, <1>3

LEMMA PointerKeeps ==
  ASSUME NEW o \in Record, NEW p \in Pointer
  PROVE  /\ Keeps(o, [o EXCEPT !.cCaPath = p])
         /\ Keeps(o, [o EXCEPT !.cServers = p])
         /\ Keeps(o, [o EXCEPT !.cArr = p])
  BY DEF Keeps, Record

LEMMA ObjectKeeps ==
  ASSUME NEW o \in Record, NEW j \in Object \cup {Null}
  PROVE  /\ Keeps(o, [o EXCEPT !.cWill = j])
         /\ Keeps(o, [o EXCEPT !.cSsl = j])
         /\ Keeps(o, [o EXCEPT !.cWillProps = j])
         /\ Keeps(o, [o EXCEPT !.servers = j])
  BY DEF Keeps, Record

LEMMA StringsKeep ==
  ASSUME NEW o \in Record, NEW str \in [SslString -> Text \cup {Null}]
  PROVE  Keeps(o, [o EXCEPT !.str = str])
  BY DEF Keeps, Record

LEMMA PointersKeep ==
  ASSUME NEW o \in Record, NEW cs \in [SslString -> Pointer]
  PROVE  Keeps(o, [o EXCEPT !.cStr = cs])
  BY DEF Keeps, Record

LEMMA TextKeeps ==
  ASSUME NEW o \in Record, NEW t \in Text \cup {Null}
  PROVE  /\ Keeps(o, [o EXCEPT !.caPath = t])
         /\ Keeps(o, [o EXCEPT !.coll = t])
  BY DEF Keeps, Record

LEMMA ListKeeps ==
  ASSUME NEW o \in Record, NEW b \in Block \cup Object \cup {Null}
  PROVE  Keeps(o, [o EXCEPT !.cProps = b])
  BY DEF Keeps, Record

LEMMA FlagKeeps ==
  ASSUME NEW o \in Record, NEW flag \in BOOLEAN
  PROVE  /\ Keeps(o, [o EXCEPT !.moved = flag])
         /\ Keeps(o, [o EXCEPT !.copied = flag])
  BY DEF Keeps, Record

\* One block is assigned.
LEMMA BlockTyped ==
  ASSUME NEW o \in Record, NEW b \in Block \cup {Null}
  PROVE  /\ [o EXCEPT !.props = b] \in Record
         /\ [o EXCEPT !.props = b].class = o.class
         /\ [o EXCEPT !.props = b].props = b
         /\ [o EXCEPT !.props = b].value = o.value
         /\ [o EXCEPT !.props = b].willProps = o.willProps
         /\ [o EXCEPT !.value = b] \in Record
         /\ [o EXCEPT !.value = b].class = o.class
         /\ [o EXCEPT !.value = b].props = o.props
         /\ [o EXCEPT !.value = b].value = b
         /\ [o EXCEPT !.value = b].willProps = o.willProps
         /\ [o EXCEPT !.willProps = b] \in Record
         /\ [o EXCEPT !.willProps = b].class = o.class
         /\ [o EXCEPT !.willProps = b].props = o.props
         /\ [o EXCEPT !.willProps = b].value = o.value
         /\ [o EXCEPT !.willProps = b].willProps = b
  BY DEF Record

LEMMA KeepsTransitive ==
  ASSUME NEW o, NEW n, NEW m, Keeps(o, n), Keeps(n, m)
  PROVE  Keeps(o, m)
  BY DEF Keeps

-----------------------------------------------------------------------------
(* Operators that leave the blocks alone                                   *)

LEMMA WillSetTopicKeeps ==
  ASSUME NEW o \in Record, NEW r \in Ref
  PROVE  Keeps(o, WillSetTopic(o, r))
<1> DEFINE t == IF r = Null THEN Empty ELSE r
           a == [o EXCEPT !.topic = t]
<1>1. t \in Ref
  BY DEF Ref
<1> HIDE DEF t
<1>2. Keeps(o, a)
  BY <1>1, RefKeeps
<1>3. a \in Record
  BY <1>2 DEF Keeps
<1> HIDE DEF a
<1>4. Keeps(a, [a EXCEPT !.cTopic = t])
  BY <1>1, <1>3, RefKeeps
<1> QED
  BY <1>2, <1>4, KeepsTransitive DEF WillSetTopic, a, t

LEMMA WillSetPayloadKeeps ==
  ASSUME NEW o \in Record, NEW r \in Ref
  PROVE  Keeps(o, WillSetPayload(o, r))
<1> DEFINE p == IF r = Null THEN Empty ELSE r
           a == [o EXCEPT !.payload = p]
<1>1. p \in Ref
  BY DEF Ref
<1> HIDE DEF p
<1>2. Keeps(o, a)
  BY <1>1, RefKeeps
<1>3. a \in Record
  BY <1>2 DEF Keeps
<1> HIDE DEF a
<1>4. Keeps(a, [a EXCEPT !.cPayload = p])
  BY <1>1, <1>3, RefKeeps
<1> QED
  BY <1>2, <1>4, KeepsTransitive DEF WillSetPayload, a, p

LEMMA WillFromKeeps ==
  ASSUME NEW o \in Record, NEW src, src.topic \in Ref, src.payload \in Ref
  PROVE  Keeps(o, WillFrom(o, src))
<1>1. Keeps(o, WillSetTopic(o, src.topic))
  BY WillSetTopicKeeps
<1>2. WillSetTopic(o, src.topic) \in Record
  BY <1>1 DEF Keeps
<1>3. Keeps(WillSetTopic(o, src.topic), WillFrom(o, src))
  BY <1>2, WillSetPayloadKeeps DEF WillFrom
<1> QED
  BY <1>1, <1>3, KeepsTransitive

LEMMA DefaultTyped ==
  ASSUME NEW class \in Class
  PROVE  Keeps(Blank(class), Default(class))
<1>1. Blank(class) \in Record
  BY BlankTyped
<1>2. Keeps(Blank(class), DefaultWill(class))
  BY <1>1, WillSetTopicKeeps DEF DefaultWill, Ref
<1> QED
  BY <1>1, <1>2 DEF Default, Keeps

LEMMA SslUpdateKeeps ==
  ASSUME NEW i \in Object, NEW o \in Record
  PROVE  Keeps(o, SslUpdate(i, o))
<1>1. o.str \in [SslString -> Text \cup {Null}]
  BY MembersTyped
<1>2. [s \in SslString |-> At(i, o.str[s])] \in [SslString -> Pointer]
  BY <1>1, AtTyped
<1> QED
  BY <1>1, <1>2, PointersKeep DEF SslUpdate

LEMMA SslFromKeeps ==
  ASSUME NEW i \in Object, NEW o \in Record, NEW src \in Record
  PROVE  Keeps(o, SslFrom(i, o, src))
<1> DEFINE a == [o EXCEPT !.str = src.str]
           b == [a EXCEPT !.cCaPath = src.cCaPath]
<1>1. src.str \in [SslString -> Text \cup {Null}] /\ src.cCaPath \in Pointer
  BY MembersTyped
<1>2. Keeps(o, a)
  BY <1>1, StringsKeep
<1>3. a \in Record
  BY <1>2 DEF Keeps
<1> HIDE DEF a
<1>4. Keeps(a, b)
  BY <1>1, <1>3, PointerKeeps
<1>5. b \in Record
  BY <1>4 DEF Keeps
<1> HIDE DEF b
<1>6. Keeps(b, SslUpdate(i, b))
  BY <1>5, SslUpdateKeeps
<1>7. Keeps(o, SslUpdate(i, b))
  BY <1>2, <1>4, <1>6, KeepsTransitive
<1> QED
  BY <1>7 DEF SslFrom, a, b

LEMMA WithStringKeeps ==
  ASSUME NEW i \in Object, NEW o \in Record, NEW s \in SslString,
         NEW t \in Text \cup {Null}
  PROVE  Keeps(o, WithString(i, o, s, t))
<1> DEFINE str == [o.str EXCEPT ![s] = t]
           a == [o EXCEPT !.str = str]
           cs == [a.cStr EXCEPT ![s] = At(i, t)]
<1>1. str \in [SslString -> Text \cup {Null}]
  BY MembersTyped
<1> HIDE DEF str
<1>2. Keeps(o, a)
  BY <1>1, StringsKeep
<1>3. a \in Record
  BY <1>2 DEF Keeps
<1> HIDE DEF a
<1>4. a.cStr \in [SslString -> Pointer]
  BY <1>3 DEF Record
<1>5. cs \in [SslString -> Pointer]
  BY <1>4, AtTyped
<1> HIDE DEF cs
<1>6. Keeps(a, [a EXCEPT !.cStr = cs])
  BY <1>3, <1>5, PointersKeep
<1>7. Keeps(o, [a EXCEPT !.cStr = cs])
  BY <1>2, <1>6, KeepsTransitive
<1> QED
  BY <1>7 DEF WithString, a, str, cs

LEMMA SetSslKeeps ==
  ASSUME NEW i \in Object, NEW o \in Record, NEW src \in Record
  PROVE  Keeps(o, SetSsl(i, o, src))
<1> DEFINE a == SslFrom(i, o, src)
<1>1. Keeps(o, a)
  BY SslFromKeeps
<1>2. a \in Record
  BY <1>1 DEF Keeps
<1> HIDE DEF a
<1>3. Keeps(a, [a EXCEPT !.cSsl = i])
  BY <1>2, ObjectKeeps
<1> QED
  BY <1>1, <1>3, KeepsTransitive DEF SetSsl, a

LEMMA SetWillKeeps ==
  ASSUME NEW i \in Object, NEW o \in Record, NEW src \in Record
  PROVE  Keeps(o, SetWill(i, o, src))
<1> DEFINE a == WillFrom(o, src)
           b == [a EXCEPT !.cWill = i]
           p == IF o.willProps = Null THEN Null ELSE i
<1>1. Keeps(o, a)
  BY MembersTyped, WillFromKeeps
<1>2. a \in Record
  BY <1>1 DEF Keeps
<1> HIDE DEF a
<1>3. Keeps(a, b)
  BY <1>2, ObjectKeeps
<1>4. b \in Record
  BY <1>3 DEF Keeps
<1> HIDE DEF b
<1>5. Keeps(b, [b EXCEPT !.cWillProps = p])
  BY <1>4, ObjectKeeps
<1> HIDE DEF p
<1>6. Keeps(o, [b EXCEPT !.cWillProps = p])
  BY <1>1, <1>3, <1>5, KeepsTransitive
<1> QED
  BY <1>6 DEF SetWill, a, b, p

LEMMA SetUserNameKeeps ==
  ASSUME NEW o \in Record, NEW r \in Ref
  PROVE  Keeps(o, SetUserName(o, r))
<1> DEFINE a == [o EXCEPT !.userName = r]
<1>1. Keeps(o, a)
  BY RefKeeps
<1>2. a \in Record
  BY <1>1 DEF Keeps
<1> HIDE DEF a
<1>3. Keeps(a, [a EXCEPT !.cUserName = CStr(r)])
  BY <1>2, RefKeeps, CStrTyped
<1> QED
  BY <1>1, <1>3, KeepsTransitive DEF SetUserName, a

LEMMA SetPasswordKeeps ==
  ASSUME NEW o \in Record, NEW r \in Ref
  PROVE  Keeps(o, SetPassword(o, r))
<1> DEFINE a == [o EXCEPT !.password = r]
<1>1. Keeps(o, a)
  BY RefKeeps
<1>2. a \in Record
  BY <1>1 DEF Keeps
<1> HIDE DEF a
<1>3. Keeps(a, [a EXCEPT !.cPassword = CStr(r)])
  BY <1>2, RefKeeps, CStrTyped
<1> QED
  BY <1>1, <1>3, KeepsTransitive DEF SetPassword, a

LEMMA CredentialsKeep ==
  ASSUME NEW o \in Record, NEW u \in Ref, NEW p \in Ref
  PROVE  Keeps(o, SetPassword(SetUserName(o, u), p))
<1>1. Keeps(o, SetUserName(o, u))
  BY SetUserNameKeeps
<1>2. SetUserName(o, u) \in Record
  BY <1>1 DEF Keeps
<1>3. Keeps(SetUserName(o, u), SetPassword(SetUserName(o, u), p))
  BY <1>2, SetPasswordKeeps
<1> QED
  BY <1>1, <1>3, KeepsTransitive

LEMMA CopyStructKeeps ==
  ASSUME NEW o \in Record, NEW src \in Record
  PROVE  Keeps(o, CopyStruct(o, src))
<1> DEFINE a == [o EXCEPT !.cWill = src.cWill]
           b == [a EXCEPT !.cWillProps = src.cWillProps]
           c == [b EXCEPT !.cSsl = src.cSsl]
           d == [c EXCEPT !.cTok = src.cTok]
           e == [d EXCEPT !.cServers = src.cServers]
           f == [e EXCEPT !.cProps = src.cProps]
<1>1. /\ {src.cWill, src.cWillProps, src.cSsl} \subseteq Object \cup {Null}
      /\ src.cTok \in Ref /\ src.cServers \in Pointer
      /\ src.cProps \in Block \cup Object \cup {Null}
  BY MembersTyped
<1>2. Keeps(o, a)
  BY <1>1, ObjectKeeps
<1>3. a \in Record
  BY <1>2 DEF Keeps
<1> HIDE DEF a
<1>4. Keeps(a, b)
  BY <1>1, <1>3, ObjectKeeps
<1>5. b \in Record
  BY <1>4 DEF Keeps
<1> HIDE DEF b
<1>6. Keeps(b, c)
  BY <1>1, <1>5, ObjectKeeps
<1>7. c \in Record
  BY <1>6 DEF Keeps
<1> HIDE DEF c
<1>8. Keeps(c, d)
  BY <1>1, <1>7, RefKeeps
<1>9. d \in Record
  BY <1>8 DEF Keeps
<1> HIDE DEF d
<1>10. Keeps(d, e)
  BY <1>1, <1>9, PointerKeeps
<1>11. e \in Record
  BY <1>10 DEF Keeps
<1> HIDE DEF e
<1>12. Keeps(e, f)
  BY <1>1, <1>11, ListKeeps
<1> HIDE DEF f
<1>13. Keeps(o, f)
  BY <1>2, <1>4, <1>6, <1>8, <1>10, <1>12 DEF Keeps
<1> QED
  BY <1>13 DEF CopyStruct, a, b, c, d, e, f

LEMMA ConnectFromKeeps ==
  ASSUME NEW i \in Object, NEW o \in Record, NEW src \in Record
  PROVE  Keeps(o, ConnectFrom(i, o, src))
<1> DEFINE c == CopyStruct(o, src)
           w == IF src.cWill = Null THEN c ELSE SetWill(i, c, src)
           s == IF src.cSsl = Null THEN w ELSE SetSsl(i, w, src)
<1>1. Keeps(o, c)
  BY CopyStructKeeps
<1>2. c \in Record
  BY <1>1 DEF Keeps
<1> HIDE DEF c
<1>3. Keeps(c, w)
  BY <1>2, SetWillKeeps DEF Keeps
<1>4. w \in Record
  BY <1>3 DEF Keeps
<1> HIDE DEF w
<1>5. Keeps(w, s)
  BY <1>4, SetSslKeeps DEF Keeps
<1>6. s \in Record
  BY <1>5 DEF Keeps
<1> HIDE DEF s
<1>7. Keeps(s, SetPassword(SetUserName(s, src.userName), src.password))
  BY <1>6, MembersTyped, CredentialsKeep
<1>8. Keeps(o, SetPassword(SetUserName(s, src.userName), src.password))
  BY <1>1, <1>3, <1>5, <1>7, KeepsTransitive
<1> QED
  BY <1>8 DEF ConnectFrom, c, w, s

LEMMA ConnectMovedKeeps ==
  ASSUME NEW i \in Object, NEW src \in Record
  PROVE  Keeps(Blank("connect"), ConnectMoved(i, src))
<1> DEFINE c == CopyStruct(Blank("connect"), src)
           f == WillFrom(c, src)
           m == SslFrom(i, f, src)
           v == [m EXCEPT !.cWill = i]
           w == IF src.cWill = Null THEN m ELSE [v EXCEPT !.cWillProps = i]
           s == IF src.cSsl = Null THEN w ELSE [w EXCEPT !.cSsl = i]
<1>1. Keeps(Blank("connect"), c)
  BY BlankTyped, CopyStructKeeps DEF Class
<1>2. c \in Record
  BY <1>1 DEF Keeps
<1> HIDE DEF c
<1>3. Keeps(c, f)
  BY <1>2, MembersTyped, WillFromKeeps
<1>4. f \in Record
  BY <1>3 DEF Keeps
<1> HIDE DEF f
<1>5. Keeps(f, m)
  BY <1>4, SslFromKeeps
<1>6. m \in Record
  BY <1>5 DEF Keeps
<1> HIDE DEF m
<1>7. Keeps(m, v)
  BY <1>6, ObjectKeeps
<1>8. v \in Record
  BY <1>7 DEF Keeps
<1> HIDE DEF v
<1>9. Keeps(v, [v EXCEPT !.cWillProps = i])
  BY <1>8, ObjectKeeps
<1>10. Keeps(m, w)
  BY <1>6, <1>7, <1>9 DEF Keeps
<1>11. w \in Record
  BY <1>10 DEF Keeps
<1> HIDE DEF w
<1>12. Keeps(w, [w EXCEPT !.cSsl = i])
  BY <1>11, ObjectKeeps
<1>13. Keeps(w, s)
  BY <1>11, <1>12 DEF Keeps
<1>14. s \in Record
  BY <1>13 DEF Keeps
<1> HIDE DEF s
<1>15. Keeps(s, SetPassword(SetUserName(s, src.userName), src.password))
  BY <1>14, MembersTyped, CredentialsKeep
<1>16. Keeps(Blank("connect"),
             SetPassword(SetUserName(s, src.userName), src.password))
  BY <1>1, <1>3, <1>5, <1>10, <1>13, <1>15 DEF Keeps
<1> QED
  BY <1>16 DEF ConnectMoved, c, f, m, v, w, s

LEMMA MessageSetPayloadKeeps ==
  ASSUME NEW o \in Record, NEW r \in Ref
  PROVE  Keeps(o, MessageSetPayload(o, r))
<1> DEFINE a == [o EXCEPT !.payload = r]
<1>1. Keeps(o, a)
  BY RefKeeps
<1>2. a \in Record
  BY <1>1 DEF Keeps
<1> HIDE DEF a
<1>3. Keeps(a, [a EXCEPT !.cPayload = CStr(r)])
  BY <1>2, RefKeeps, CStrTyped
<1> QED
  BY <1>1, <1>3, KeepsTransitive DEF MessageSetPayload, a

LEMMA MessageFromKeeps ==
  ASSUME NEW o \in Record, NEW src \in Record
  PROVE  Keeps(o, MessageFrom(o, src))
<1> DEFINE a == [o EXCEPT !.topic = src.topic]
           b == [a EXCEPT !.cProps = src.cProps]
<1>1. Keeps(o, a)
  BY MembersTyped, RefKeeps
<1>2. a \in Record
  BY <1>1 DEF Keeps
<1> HIDE DEF a
<1>3. Keeps(a, b)
  BY <1>2, MembersTyped, ListKeeps
<1>4. b \in Record
  BY <1>3 DEF Keeps
<1> HIDE DEF b
<1>5. Keeps(b, MessageSetPayload(b, src.payload))
  BY <1>4, MembersTyped, MessageSetPayloadKeeps
<1>6. Keeps(o, MessageSetPayload(b, src.payload))
  BY <1>1, <1>3, <1>5, KeepsTransitive
<1> QED
  BY <1>6 DEF MessageFrom, a, b

LEMMA SetContextKeeps ==
  ASSUME NEW o \in Record, NEW t \in Ref
  PROVE  Keeps(o, SetContext(o, t))
<1> DEFINE a == [o EXCEPT !.tok = t]
<1>1. Keeps(o, a)
  BY RefKeeps
<1>2. a \in Record
  BY <1>1 DEF Keeps
<1> HIDE DEF a
<1>3. Keeps(a, [a EXCEPT !.cTok = t])
  BY <1>2, RefKeeps
<1> QED
  BY <1>1, <1>3, KeepsTransitive DEF SetContext, a

LEMMA DisconnectFromKeeps ==
  ASSUME NEW o \in Record, NEW src \in Record
  PROVE  Keeps(o, DisconnectFrom(o, src))
<1> DEFINE a == [o EXCEPT !.tok = src.tok]
           b == [a EXCEPT !.cTok = src.cTok]
<1>1. Keeps(o, a)
  BY MembersTyped, RefKeeps
<1>2. a \in Record
  BY <1>1 DEF Keeps
<1> HIDE DEF a
<1>3. Keeps(a, b)
  BY <1>2, MembersTyped, RefKeeps
<1>4. b \in Record
  BY <1>3 DEF Keeps
<1> HIDE DEF b
<1>5. Keeps(b, [b EXCEPT !.cProps = src.cProps])
  BY <1>4, MembersTyped, ListKeeps
<1>6. Keeps(o, [b EXCEPT !.cProps = src.cProps])
  BY <1>1, <1>3, <1>5, KeepsTransitive
<1> QED
  BY <1>6 DEF DisconnectFrom, a, b

LEMMA UpdateCArrKeeps ==
  ASSUME NEW i \in Object, NEW o \in Record, NEW t \in Text \cup {Null}
  PROVE  Keeps(o, UpdateCArr(i, [o EXCEPT !.coll = t]))
<1> DEFINE a == [o EXCEPT !.coll = t]
<1>1. Keeps(o, a)
  BY TextKeeps
<1>2. a \in Record
  BY <1>1 DEF Keeps
<1> HIDE DEF a
<1>3. At(i, a.coll) \in Pointer
  BY <1>2, MembersTyped, AtTyped
<1>4. Keeps(a, [a EXCEPT !.cArr = At(i, a.coll)])
  BY <1>2, <1>3, PointerKeeps
<1>5. Keeps(o, [a EXCEPT !.cArr = At(i, a.coll)])
  BY <1>1, <1>4, KeepsTransitive
<1> QED
  BY <1>5 DEF UpdateCArr, a

LEMMA ArrayKeeps ==
  ASSUME NEW o \in Record, NEW t \in Text \cup {Null}, NEW p \in Pointer
  PROVE  Keeps(o, [o EXCEPT !.coll = t, !.cArr = p])
<1> DEFINE a == [o EXCEPT !.coll = t]
<1>1. Keeps(o, a)
  BY TextKeeps
<1>2. a \in Record
  BY <1>1 DEF Keeps
<1> HIDE DEF a
<1>3. Keeps(a, [a EXCEPT !.cArr = p])
  BY <1>2, PointerKeeps
<1> QED
  BY <1>1, <1>3, KeepsTransitive DEF a

LEMMA ResponseFromKeeps ==
  ASSUME NEW o \in Record, NEW src \in Record
  PROVE  Keeps(o, ResponseFrom(o, src))
<1> DEFINE a == [o EXCEPT !.tok = src.tok]
           b == [a EXCEPT !.cTok = src.cTok]
<1>1. Keeps(o, a)
  BY MembersTyped, RefKeeps
<1>2. a \in Record
  BY <1>1 DEF Keeps
<1> HIDE DEF a
<1>3. Keeps(a, b)
  BY <1>2, MembersTyped, RefKeeps
<1>4. b \in Record
  BY <1>3 DEF Keeps
<1> HIDE DEF b
<1>5. Keeps(b, [b EXCEPT !.coll = src.coll, !.cArr = src.cArr])
  BY <1>4, MembersTyped, ArrayKeeps
<1>6. Keeps(o, [b EXCEPT !.coll = src.coll, !.cArr = src.cArr])
  BY <1>1, <1>3, <1>5, KeepsTransitive
<1> QED
  BY <1>6 DEF ResponseFrom, a, b

LEMMA ResponseMovedKeeps ==
  ASSUME NEW i \in Object, NEW o \in Record, NEW src \in Record
  PROVE  Keeps(o, ResponseMoved(i, o, src))
<1> DEFINE a == ResponseFrom(o, src)
<1>1. Keeps(o, a)
  BY ResponseFromKeeps
<1>2. a \in Record
  BY <1>1 DEF Keeps
<1> HIDE DEF a
<1>3. Keeps(a, [a EXCEPT !.cArr = At(i, src.coll)])
  BY <1>2, MembersTyped, AtTyped, PointerKeeps
<1> QED
  BY <1>1, <1>3, KeepsTransitive DEF ResponseMoved, a

LEMMA DerivedKeeps ==
  ASSUME NEW o \in Record
  PROVE  Keeps(o, Derived(o))
<1> DEFINE a == [o EXCEPT !.copied = TRUE]
<1>1. Keeps(o, a)
  BY FlagKeeps
<1>2. a \in Record
  BY <1>1 DEF Keeps
<1> HIDE DEF a
<1>3. Keeps(a, [a EXCEPT !.moved = FALSE])
  BY <1>2, FlagKeeps
<1> QED
  BY <1>1, <1>3, KeepsTransitive DEF Derived, a

LEMMA NoCredentialsKeeps ==
  ASSUME NEW o \in Record
  PROVE  Keeps(o, NoCredentials(o))
<1> DEFINE a == [o EXCEPT !.userName = Null]
           b == [a EXCEPT !.password = Null]
<1>0. Null \in Ref
  BY DEF Ref
<1>1. Keeps(o, a)
  BY <1>0, RefKeeps
<1>2. a \in Record
  BY <1>1 DEF Keeps
<1> HIDE DEF a
<1>3. Keeps(a, b)
  BY <1>0, <1>2, RefKeeps
<1>4. b \in Record
  BY <1>3 DEF Keeps
<1> HIDE DEF b
<1>5. Keeps(b, [b EXCEPT !.moved = TRUE])
  BY <1>4, FlagKeeps
<1>6. Keeps(o, [b EXCEPT !.moved = TRUE])
  BY <1>1, <1>3, <1>5, KeepsTransitive
<1> QED
  BY <1>6 DEF NoCredentials, a, b

-----------------------------------------------------------------------------
(* Blocks                                                                  *)

LEMMA BlocksKept ==
  ASSUME NEW o, NEW n, Keeps(o, n), Shape(o)
  PROVE  Shape(n) /\ Blocks(n) = Blocks(o)
  BY DEF Keeps, Shape, Blocks

LEMMA BlocksShaped ==
  ASSUME NEW o \in Record, Shape(o)
  PROVE  /\ Blocks(o) \subseteq Block
         /\ o.class = "property" => Blocks(o) = {o.value} \ {Null}
         /\ o.class = "will" => Blocks(o) = {o.willProps} \ {Null}
         /\ o.class \in {"connect", "message", "disconnect", "list"} =>
              Blocks(o) = {o.props} \ {Null}
         /\ o.class \notin {"will", "connect", "message", "disconnect",
                            "list", "property"} => Blocks(o) = {}
<1>1. {o.willProps, o.props, o.value} \subseteq Block \cup {Null}
  BY MembersTyped
<1> QED
  BY <1>1 DEF Shape, Blocks

LEMMA BlankShaped ==
  ASSUME NEW class \in Class \cup {"none"}
  PROVE  Shape(Blank(class)) /\ Blocks(Blank(class)) = {}
  BY BlankTyped DEF Shape, Blocks

LEMMA NothingIsFresh == ASSUME TypeOK PROVE Fresh \subseteq Block
  BY DEF Fresh

\* The classes whose copies and moves leave the blocks alone.
LEMMA CopyKeeps ==
  ASSUME NEW i \in Object, NEW o \in Record, NEW src \in Record, NEW b,
         o.class \notin {"none", "list", "property"}
  PROVE  Keeps(o, CopyOf(i, o, src, b))
<1>1. o.class \in {"will", "ssl", "connect", "message", "disconnect",
                   "response", "strings"}
  BY MembersTyped DEF Class
<1>2. CASE o.class = "will"
  <2>1. CopyOf(i, o, src, b) = WillFrom(o, src)
    BY <1>2 DEF CopyOf
  <2> QED
    BY <2>1, MembersTyped, WillFromKeeps
<1>3. CASE o.class = "ssl"
  <2>1. CopyOf(i, o, src, b) = SslFrom(i, o, src)
    BY <1>3 DEF CopyOf
  <2> QED
    BY <2>1, SslFromKeeps
<1>4. CASE o.class = "connect"
  <2>1. CopyOf(i, o, src, b) = ConnectFrom(i, o, src)
    BY <1>4 DEF CopyOf
  <2> QED
    BY <2>1, ConnectFromKeeps
<1>5. CASE o.class = "message"
  <2>1. CopyOf(i, o, src, b) = MessageFrom(o, src)
    BY <1>5 DEF CopyOf
  <2> QED
    BY <2>1, MessageFromKeeps
<1>6. CASE o.class = "disconnect"
  <2>1. CopyOf(i, o, src, b) = DisconnectFrom(o, src)
    BY <1>6 DEF CopyOf
  <2> QED
    BY <2>1, DisconnectFromKeeps
<1>7. CASE o.class = "response"
  <2>1. CopyOf(i, o, src, b) = ResponseFrom(o, src)
    BY <1>7 DEF CopyOf
  <2> QED
    BY <2>1, ResponseFromKeeps
<1>8. CASE o.class = "strings"
  <2>1. CopyOf(i, o, src, b) = UpdateCArr(i, [o EXCEPT !.coll = src.coll])
    BY <1>8 DEF CopyOf
  <2> QED
    BY <2>1, MembersTyped, UpdateCArrKeeps
<1> QED
  BY <1>1, <1>2, <1>3, <1>4, <1>5, <1>6, <1>7, <1>8

LEMMA MoveKeeps ==
  ASSUME NEW i \in Object, NEW o \in Record, NEW src \in Record,
         o.class \notin {"none", "list", "property"}
  PROVE  Keeps(o, MoveOf(i, o, src))
<1>1. CASE o.class = "response"
  <2>1. MoveOf(i, o, src) = ResponseMoved(i, o, src)
    BY <1>1 DEF MoveOf
  <2> QED
    BY <2>1, ResponseMovedKeeps
<1>2. CASE o.class # "response"
  <2>1. MoveOf(i, o, src) = CopyOf(i, o, src, Null)
    BY <1>2 DEF MoveOf
  <2> QED
    BY <2>1, CopyKeeps
<1> QED
  BY <1>1, <1>2

\* A copy of an object has the block made for it, or what it had before.
LEMMA CopyShaped ==
  ASSUME NEW i \in Object, NEW o \in Record, NEW src \in Record,
         NEW b \in Block \cup {Null}, o.class # "none", Shape(o)
  PROVE  LET c == Derived(CopyOf(i, o, src, b))
         IN  /\ c \in Record /\ c.class = o.class /\ Shape(c)
             /\ o.class \in {"list", "property"} => Blocks(c) \subseteq {b} \ {Null}
             /\ o.class \notin {"list", "property"} => Blocks(c) = Blocks(o)
<1> DEFINE m == CopyOf(i, o, src, b)
<1> HIDE DEF m
<1>1. m \in Record => Keeps(m, Derived(m))
  BY DerivedKeeps
<1>2. CASE o.class \notin {"list", "property"}
  <2>1. Keeps(o, m)
    BY <1>2, CopyKeeps DEF m
  <2>2. Keeps(o, Derived(m))
    BY <1>1, <2>1 DEF Keeps
  <2> QED
    BY <1>2, <2>2, BlocksKept DEF Keeps, m
<1>3. CASE o.class = "list"
  <2>1. m = [o EXCEPT !.props = CopyIn(src.props, b)]
    BY <1>3 DEF CopyOf, m
  <2>2. CopyIn(src.props, b) \in (Block \cup {Null}) \cap {b, Null}
    BY DEF CopyIn
  <2>3. /\ m \in Record /\ m.class = o.class /\ m.props \in {b, Null}
        /\ m.value = o.value /\ m.willProps = o.willProps
    BY <2>1, <2>2, BlockTyped
  <2>4. Keeps(m, Derived(m)) /\ Shape(m)
    BY <1>1, <1>3, <2>3 DEF Shape
  <2>5. Blocks(m) \subseteq {b} \ {Null}
    BY <1>3, <2>3 DEF Shape, Blocks
  <2> QED
    BY <1>3, <2>3, <2>4, <2>5, BlocksKept DEF Keeps, m
<1>4. CASE o.class = "property"
  <2>1. m = [o EXCEPT !.value = CopyIn(src.value, b)]
    BY <1>4 DEF CopyOf, m
  <2>2. CopyIn(src.value, b) \in (Block \cup {Null}) \cap {b, Null}
    BY DEF CopyIn
  <2>3. /\ m \in Record /\ m.class = o.class /\ m.value \in {b, Null}
        /\ m.props = o.props /\ m.willProps = o.willProps
    BY <2>1, <2>2, BlockTyped
  <2>4. Keeps(m, Derived(m)) /\ Shape(m)
    BY <1>1, <1>4, <2>3 DEF Shape
  <2>5. Blocks(m) \subseteq {b} \ {Null}
    BY <1>4, <2>3 DEF Shape, Blocks
  <2> QED
    BY <1>4, <2>3, <2>4, <2>5, BlocksKept DEF Keeps, m
<1> QED
  BY <1>2, <1>3, <1>4

\* A move takes over the block of a list or property, and no other.
LEMMA MoveShaped ==
  ASSUME NEW i \in Object, NEW o \in Record, NEW src \in Record,
         o.class # "none", Shape(o), src.class = o.class, Shape(src)
  PROVE  LET c == Derived(MoveOf(i, o, src))
         IN  /\ c \in Record /\ c.class = o.class /\ Shape(c)
             /\ o.class \in {"list", "property"} => Blocks(c) = Blocks(src)
             /\ o.class \notin {"list", "property"} => Blocks(c) = Blocks(o)
<1> DEFINE m == MoveOf(i, o, src)
<1> HIDE DEF m
<1>1. m \in Record => Keeps(m, Derived(m))
  BY DerivedKeeps
<1>2. CASE o.class \notin {"list", "property"}
  <2>1. Keeps(o, m)
    BY <1>2, MoveKeeps DEF m
  <2>2. Keeps(o, Derived(m))
    BY <1>1, <2>1 DEF Keeps
  <2> QED
    BY <1>2, <2>2, BlocksKept DEF Keeps, m
<1>3. CASE o.class = "list"
  <2>0. src.props \in Block \cup {Null}
    BY MembersTyped
  <2>1. m = [o EXCEPT !.props = src.props]
    BY <1>3 DEF MoveOf, m
  <2>2. /\ m \in Record /\ m.class = o.class /\ m.props = src.props
        /\ m.value = o.value /\ m.willProps = o.willProps
    BY <2>0, <2>1, BlockTyped
  <2>3. Keeps(m, Derived(m)) /\ Shape(m) /\ Blocks(m) = Blocks(src)
    BY <1>1, <1>3, <2>2 DEF Shape, Blocks
  <2> QED
    BY <1>3, <2>2, <2>3, BlocksKept DEF Keeps, m
<1>4. CASE o.class = "property"
  <2>0. src.value \in Block \cup {Null}
    BY MembersTyped
  <2>1. m = [o EXCEPT !.value = src.value]
    BY <1>4 DEF MoveOf, m
  <2>2. /\ m \in Record /\ m.class = o.class /\ m.value = src.value
        /\ m.props = o.props /\ m.willProps = o.willProps
    BY <2>0, <2>1, BlockTyped
  <2>3. Keeps(m, Derived(m)) /\ Shape(m) /\ Blocks(m) = Blocks(src)
    BY <1>1, <1>4, <2>2 DEF Shape, Blocks
  <2> QED
    BY <1>4, <2>2, <2>3, BlocksKept DEF Keeps, m
<1> QED
  BY <1>2, <1>3, <1>4

\* The source of a move: a list or property gives its block away.
LEMMA RemainsShaped ==
  ASSUME NEW o \in Record, o.class # "none", Shape(o)
  PROVE  LET r == Remains(o)
         IN  /\ r \in Record /\ r.class = o.class /\ Shape(r)
             /\ o.class \in {"list", "property"} => Blocks(r) = {}
             /\ o.class \notin {"list", "property"} => Blocks(r) = Blocks(o)
<1> DEFINE tp == [[o EXCEPT !.topic = Null] EXCEPT !.payload = Null]
           noStrings == [s \in SslString |-> Null]
<1>0. /\ Null \in Ref /\ Null \in Pointer /\ Null \in Text \cup {Null}
      /\ Null \in Block \cup {Null}
      /\ noStrings \in [SslString -> Text \cup {Null}]
  BY DEF Ref, Pointer
<1> HIDE DEF noStrings
<1>1. Keeps(o, tp)
  <2> DEFINE a == [o EXCEPT !.topic = Null]
  <2>1. Keeps(o, a)
    BY <1>0, RefKeeps
  <2>2. a \in Record
    BY <2>1 DEF Keeps
  <2> HIDE DEF a
  <2>3. Keeps(a, [a EXCEPT !.payload = Null])
    BY <1>0, <2>2, RefKeeps
  <2> QED
    BY <2>1, <2>3, KeepsTransitive DEF a
<1>2. tp \in Record
  BY <1>1 DEF Keeps
<1>3. ASSUME NEW r, Keeps(o, r), Remains(o) = [r EXCEPT !.moved = TRUE],
             o.class \notin {"list", "property"}
      PROVE  /\ Remains(o) \in Record /\ Remains(o).class = o.class
             /\ Shape(Remains(o)) /\ Blocks(Remains(o)) = Blocks(o)
  <2>1. r \in Record
    BY <1>3 DEF Keeps
  <2>2. Keeps(r, [r EXCEPT !.moved = TRUE])
    BY <2>1, FlagKeeps
  <2>3. Keeps(o, Remains(o))
    BY <1>3, <2>2, KeepsTransitive
  <2> QED
    BY <2>3, BlocksKept DEF Keeps
<1>4. o.class \in {"will", "ssl", "connect", "message", "disconnect",
                   "response", "strings", "list", "property"}
  BY MembersTyped DEF Class
<1>5. CASE o.class = "will"
  <2>1. Remains(o) = [tp EXCEPT !.moved = TRUE]
    BY <1>5 DEF Remains
  <2> QED
    BY <1>1, <1>3, <1>5, <2>1
<1>6. CASE o.class = "ssl"
  <2>1. Remains(o) = [[o EXCEPT !.str = noStrings] EXCEPT !.moved = TRUE]
    BY <1>6 DEF Remains, noStrings
  <2>2. Keeps(o, [o EXCEPT !.str = noStrings])
    BY <1>0, StringsKeep
  <2> QED
    BY <1>3, <1>6, <2>1, <2>2
<1>7. CASE o.class = "connect"
  <2> DEFINE a == [tp EXCEPT !.str = noStrings]
  <2> HIDE DEF tp
  <2>1. Keeps(tp, a)
    BY <1>0, <1>2, StringsKeep
  <2>2. a \in Record
    BY <2>1 DEF Keeps
  <2> HIDE DEF a
  <2>3. Keeps(a, NoCredentials(a))
    BY <2>2, NoCredentialsKeeps
  <2>4. Keeps(o, NoCredentials(a))
    BY <1>1, <2>1, <2>3, KeepsTransitive
  <2>5. Remains(o) = [NoCredentials(a) EXCEPT !.moved = TRUE]
    BY <1>7 DEF Remains, a, tp, noStrings
  <2> QED
    BY <1>3, <1>7, <2>4, <2>5
<1>8. CASE o.class = "message"
  <2> DEFINE a == [tp EXCEPT !.cPayload = Null]
  <2>1. Remains(o) = [a EXCEPT !.moved = TRUE]
    BY <1>8 DEF Remains
  <2> HIDE DEF tp
  <2>2. Keeps(tp, a)
    BY <1>0, <1>2, RefKeeps
  <2>3. Keeps(o, a)
    BY <1>1, <2>2, KeepsTransitive
  <2> QED
    BY <1>3, <1>8, <2>1, <2>3
<1>9. CASE o.class = "disconnect"
  <2>1. Remains(o) = [[o EXCEPT !.tok = Null] EXCEPT !.moved = TRUE]
    BY <1>9 DEF Remains
  <2>2. Keeps(o, [o EXCEPT !.tok = Null])
    BY <1>0, RefKeeps
  <2> QED
    BY <1>3, <1>9, <2>1, <2>2
<1>10. CASE o.class = "response"
  <2> DEFINE a == [o EXCEPT !.tok = Null]
             b == [a EXCEPT !.coll = Null]
  <2>1. Remains(o) = [b EXCEPT !.moved = TRUE]
    BY <1>10 DEF Remains
  <2>2. Keeps(o, a)
    BY <1>0, RefKeeps
  <2>3. a \in Record
    BY <2>2 DEF Keeps
  <2> HIDE DEF a
  <2>4. Keeps(a, b)
    BY <1>0, <2>3, TextKeeps
  <2>5. Keeps(o, b)
    BY <2>2, <2>4, KeepsTransitive
  <2> QED
    BY <1>3, <1>10, <2>1, <2>5
<1>11. CASE o.class = "strings"
  <2>1. Remains(o) = [[o EXCEPT !.coll = Null, !.cArr = Null] EXCEPT !.moved = TRUE]
    BY <1>11 DEF Remains
  <2>2. Keeps(o, [o EXCEPT !.coll = Null, !.cArr = Null])
    BY <1>0, ArrayKeeps
  <2> QED
    BY <1>3, <1>11, <2>1, <2>2
<1>12. CASE o.class = "list"
  <2> DEFINE a == [o EXCEPT !.props = Null]
  <2>1. Remains(o) = [a EXCEPT !.moved = TRUE]
    BY <1>12 DEF Remains
  <2>2. /\ a \in Record /\ a.class = o.class /\ a.props = Null
        /\ a.value = o.value /\ a.willProps = o.willProps
    BY <1>0, BlockTyped
  <2> HIDE DEF a
  <2>3. Shape(a) /\ Blocks(a) = {}
    BY <1>12, <2>2 DEF Shape, Blocks
  <2>4. Keeps(a, Remains(o))
    BY <2>1, <2>2, FlagKeeps
  <2> QED
    BY <1>12, <2>2, <2>3, <2>4, BlocksKept DEF Keeps
<1>13. CASE o.class = "property"
  <2> DEFINE a == [o EXCEPT !.value = Null]
  <2>1. Remains(o) = [a EXCEPT !.moved = TRUE]
    BY <1>13 DEF Remains
  <2>2. /\ a \in Record /\ a.class = o.class /\ a.value = Null
        /\ a.props = o.props /\ a.willProps = o.willProps
    BY <1>0, BlockTyped
  <2> HIDE DEF a
  <2>3. Shape(a) /\ Blocks(a) = {}
    BY <1>13, <2>2 DEF Shape, Blocks
  <2>4. Keeps(a, Remains(o))
    BY <2>1, <2>2, FlagKeeps
  <2> QED
    BY <1>13, <2>2, <2>3, <2>4, BlocksKept DEF Keeps
<1> QED
  BY <1>4, <1>5, <1>6, <1>7, <1>8, <1>9, <1>10, <1>11, <1>12, <1>13

\* An object has the copy of a list that set_properties() gives it, and no
\* other block.
LEMMA WithListShaped ==
  ASSUME NEW i \in Object, NEW o \in Record, NEW b \in Block \cup {Null},
         o.class \in {"will", "connect", "message", "disconnect"}, Shape(o)
  PROVE  LET n == WithList(i, o, b)
         IN  /\ n \in Record /\ n.class = o.class /\ Shape(n)
             /\ Blocks(n) = {b} \ {Null}
<1> DEFINE a == [o EXCEPT !.props = b]
<1>1. /\ a \in Record /\ a.class = o.class /\ a.props = b
      /\ a.value = o.value /\ a.willProps = o.willProps
  BY BlockTyped
<1>2. ASSUME o.class # "will" PROVE Shape(a) /\ Blocks(a) = {b} \ {Null}
  BY <1>1, <1>2 DEF Shape, Blocks
<1> HIDE DEF a
<1>3. CASE o.class = "will"
  <2> DEFINE w == [o EXCEPT !.willProps = b]
  <2>1. WithList(i, o, b) = w
    BY <1>3 DEF WithList
  <2>2. /\ w \in Record /\ w.class = o.class /\ w.willProps = b
        /\ w.value = o.value /\ w.props = o.props
    BY BlockTyped
  <2> HIDE DEF w
  <2>3. Shape(w) /\ Blocks(w) = {b} \ {Null}
    BY <1>3, <2>2 DEF Shape, Blocks
  <2> QED
    BY <2>1, <2>2, <2>3
<1>4. ASSUME NEW p \in Block \cup Object \cup {Null}, o.class # "will",
             WithList(i, o, b) = [a EXCEPT !.cProps = p]
      PROVE  LET n == WithList(i, o, b)
             IN  /\ n \in Record /\ n.class = o.class /\ Shape(n)
                 /\ Blocks(n) = {b} \ {Null}
  <2>1. Keeps(a, WithList(i, o, b))
    BY <1>1, <1>4, ListKeeps
  <2> QED
    BY <1>1, <1>2, <1>4, <2>1, BlocksKept DEF Keeps
<1>5. CASE o.class = "connect"
  <2>1. WithList(i, o, b) = [a EXCEPT !.cProps = i]
    BY <1>5 DEF WithList, a
  <2> QED
    BY <1>4, <1>5, <2>1
<1>6. CASE o.class \in {"message", "disconnect"}
  <2>1. WithList(i, o, b) = [a EXCEPT !.cProps = b]
    BY <1>6 DEF WithList, a
  <2> QED
    BY <1>4, <1>6, <2>1
<1> QED
  BY <1>3, <1>5, <1>6

-----------------------------------------------------------------------------
(* The invariant, and what a step may do                                   *)

OwnInv ==
  /\ TypeOK
  /\ \A i \in Object : Shape(obj[i])
  /\ BlocksOwnedOnce

\* Of the blocks that nobody owns, each is the text that a property had.
OnlyTextLost ==
  \A b \in (heap' \ Owned') \ (heap \ Owned) :
    \E i \in Object : obj[i].value = b /\ obj'[i].class = "property"

LEMMA OwnersApart ==
  ASSUME OwnInv, NEW i \in Object
  PROVE  /\ obj[i] \in Record /\ Shape(obj[i])
         /\ Blocks(obj[i]) \subseteq heap
         /\ \A j \in Object \ {i} :
              obj[j] \in Record /\ Blocks(obj[j]) \cap Blocks(obj[i]) = {}
  BY DEF OwnInv, TypeOK, BlocksOwnedOnce, Owned

\* The object at i becomes o, which has of the blocks that are not new at most
\* those that it had before and keeps, and loses but a property's text.
LEMMA PutOwns ==
  ASSUME OwnInv, NEW i \in Object, NEW o \in Record, Shape(o),
         o.class = "none" => o = Blank("none"),
         NEW freed, NEW taken \in SUBSET (Block \cup {Null}),
         Put(i, o, freed, taken),
         freed \subseteq Blocks(obj[i]),
         \A b \in Blocks(o) :
           /\ b \in heap => b \in Blocks(obj[i])
           /\ b \notin heap \/ b \in freed => b \in taken,
         taken \ {Null} \subseteq Blocks(o),
         \A b \in Blocks(obj[i]) \ freed :
           b \in Blocks(o) \/ (obj[i].value = b /\ o.class = "property")
  PROVE  OwnInv' /\ OnlyTextLost
<1> USE DEF Put
<1>1. heap \subseteq Block /\ Null \notin Blocks(o)
  BY DEF OwnInv, TypeOK, Blocks
<1>2. obj' \in [Object -> Record]
  BY DEF OwnInv, TypeOK
<1>3. obj'[i] = o /\ \A j \in Object \ {i} : obj'[j] = obj[j]
  BY DEF OwnInv, TypeOK
<1>4. TypeOK'
  BY <1>1, <1>2, <1>3 DEF OwnInv, TypeOK
<1>5. \A j \in Object : Shape(obj'[j])
  BY <1>3 DEF OwnInv
<1>6. \A j \in Object \ {i} : Blocks(obj[j]) \subseteq heap'
  BY OwnersApart
<1>7. Blocks(o) \subseteq heap'
  BY <1>1
<1>8. \A j \in Object \ {i} : Blocks(obj[j]) \cap Blocks(o) = {}
  BY OwnersApart
<1>9. \A j, k \in Object : j # k => Blocks(obj'[j]) \cap Blocks(obj'[k]) = {}
  <2>1. \A j, k \in Object : j # k => Blocks(obj[j]) \cap Blocks(obj[k]) = {}
    BY DEF OwnInv, BlocksOwnedOnce
  <2> QED
    BY <1>3, <1>8, <2>1
<1>10. Owned' \subseteq heap'
  BY <1>3, <1>6, <1>7 DEF Owned
<1>11. OnlyTextLost
  <2>1. \A j \in Object \ {i} : Blocks(obj[j]) \subseteq Owned'
    BY <1>3 DEF Owned
  <2>2. Blocks(o) \subseteq Owned'
    BY <1>3 DEF Owned
  <2>3. Owned \subseteq Owned' \cup Blocks(obj[i])
    BY <2>1 DEF Owned
  <2> QED
    BY <1>3, <2>2, <2>3 DEF OnlyTextLost
<1> QED
  BY <1>4, <1>5, <1>9, <1>10, <1>11 DEF OwnInv, BlocksOwnedOnce

\* A new object is at an address that had none.
LEMMA FreeIsBlank ==
  ASSUME OwnInv, NEW i \in Object, NEW class, Free(i, class)
  PROVE  obj[i] = Blank("none") /\ Blocks(obj[i]) = {}
<1>1. obj[i] = Blank("none")
  BY DEF OwnInv, TypeOK, Free, Is
<1> QED
  BY <1>1, BlankShaped

\* A new object without a block, or with a fresh one.
LEMMA NewOwns ==
  ASSUME OwnInv, NEW i \in Object, NEW class, Free(i, class),
         NEW o \in Record, o.class \in Class, Shape(o),
         NEW b \in Fresh \cup {Null}, Blocks(o) \subseteq {b} \ {Null},
         NEW taken \in {{}, {b}, Blocks(o)}, Blocks(o) = taken \ {Null},
         Put(i, o, {}, taken)
  PROVE  OwnInv' /\ OnlyTextLost
<1>1. Blocks(o) \subseteq Block
  BY BlocksShaped
<1>2. taken \in SUBSET (Block \cup {Null})
  BY <1>1 DEF Fresh
<1>3. o.class # "none"
  BY DEF Class
<1> QED
  BY <1>2, <1>3, FreeIsBlank, PutOwns DEF Fresh

LEMMA NewKeeps ==
  ASSUME OwnInv, NEW i \in Object, NEW class \in Class, Free(i, class),
         NEW o, Keeps(Blank(class), o), Change(i, o)
  PROVE  OwnInv' /\ OnlyTextLost
<1>1. o \in Record /\ o.class = class
  BY BlankTyped DEF Keeps
<1>2. Shape(o) /\ Blocks(o) = {}
  BY BlankShaped, BlocksKept
<1> QED
  BY <1>1, <1>2, NewOwns DEF Change

LEMMA ChangeOwns ==
  ASSUME OwnInv, NEW i \in Object, obj[i].class # "none",
         NEW o, Keeps(obj[i], o), Change(i, o)
  PROVE  OwnInv' /\ OnlyTextLost
<1>1. Shape(o) /\ Blocks(o) = Blocks(obj[i]) /\ o \in Record /\ o.class # "none"
  BY OwnersApart, BlocksKept DEF Keeps
<1>2. Blocks(obj[i]) \subseteq heap
  BY OwnersApart
<1> QED
  BY <1>1, <1>2, PutOwns DEF Change

\* Two objects of one class after a move: together they have no block that
\* they did not have, not the same, and lose but a property's text.
LEMMA MoveOwns ==
  ASSUME OwnInv, NEW i \in Object, NEW j \in Object, i # j,
         NEW a \in Record, a.class # "none", Shape(a),
         NEW b \in Record, b.class # "none", Shape(b),
         NEW freed, freed \subseteq Blocks(obj[i]),
         obj' = [obj EXCEPT ![i] = a, ![j] = b],
         heap' = heap \ freed, used' = used,
         Blocks(a) \cap Blocks(b) = {},
         Blocks(a) \cup Blocks(b)
           \subseteq (Blocks(obj[i]) \ freed) \cup Blocks(obj[j]),
         \A x \in (Blocks(obj[i]) \ freed) \cup Blocks(obj[j]) :
           \/ x \in Blocks(a) \cup Blocks(b)
           \/ obj[i].value = x /\ a.class = "property"
  PROVE  OwnInv' /\ OnlyTextLost
<1>1. obj' \in [Object -> Record]
  BY DEF OwnInv, TypeOK
<1>2. /\ obj'[i] = a /\ obj'[j] = b
      /\ \A k \in Object \ {i, j} : obj'[k] = obj[k]
  BY DEF OwnInv, TypeOK
<1>3. TypeOK'
  BY <1>1, <1>2 DEF OwnInv, TypeOK
<1>4. \A k \in Object : Shape(obj'[k])
  BY <1>2 DEF OwnInv
<1>5. \A k, l \in Object : k # l => Blocks(obj[k]) \cap Blocks(obj[l]) = {}
  BY DEF OwnInv, BlocksOwnedOnce
<1>6. \A k \in Object : Blocks(obj[k]) \subseteq heap
  BY OwnersApart
<1>7. \A k \in Object \ {i, j} : Blocks(obj[k]) \subseteq heap'
  BY <1>5, <1>6
<1>8. Blocks(a) \cup Blocks(b) \subseteq heap'
  BY <1>5, <1>6
<1>9. \A k \in Object \ {i, j} :
        Blocks(obj[k]) \cap (Blocks(a) \cup Blocks(b)) = {}
  BY <1>5
<1>10. \A k, l \in Object : k # l => Blocks(obj'[k]) \cap Blocks(obj'[l]) = {}
  <2>1. \A k, l \in Object \ {i, j} :
          k # l => Blocks(obj'[k]) \cap Blocks(obj'[l]) = {}
    BY <1>2, <1>5
  <2>2. \A k \in Object \ {i, j} : /\ Blocks(obj'[k]) \cap Blocks(obj'[i]) = {}
                                  /\ Blocks(obj'[k]) \cap Blocks(obj'[j]) = {}
    BY <1>2, <1>9
  <2>3. Blocks(obj'[i]) \cap Blocks(obj'[j]) = {}
    BY <1>2
  <2> QED
    BY <2>1, <2>2, <2>3
<1>11. Owned' \subseteq heap'
  BY <1>2, <1>7, <1>8 DEF Owned
<1>12. OnlyTextLost
  <2>1. \A k \in Object \ {i, j} : Blocks(obj[k]) \subseteq Owned'
    BY <1>2 DEF Owned
  <2>2. Blocks(a) \cup Blocks(b) \subseteq Owned'
    BY <1>2 DEF Owned
  <2>3. Owned \subseteq Owned' \cup Blocks(obj[i]) \cup Blocks(obj[j])
    BY <2>1 DEF Owned
  <2> QED
    BY <1>2, <2>2, <2>3 DEF OnlyTextLost
<1> QED
  BY <1>3, <1>4, <1>10, <1>11, <1>12 DEF OwnInv, BlocksOwnedOnce

-----------------------------------------------------------------------------
(* Every step keeps the invariant                                          *)

LEMMA InitOwns == Init => OwnInv
<1> SUFFICES ASSUME Init PROVE OwnInv
  OBVIOUS
<1>1. \A i \in Object : obj[i] = Blank("none")
  BY DEF Init
<1>2. Blank("none") \in Record /\ Shape(Blank("none")) /\ Blocks(Blank("none")) = {}
  BY BlankTyped, BlankShaped
<1>3. obj \in [Object -> Record]
  BY <1>2 DEF Init
<1>4. TypeOK
  BY <1>1, <1>3 DEF Init, TypeOK
<1>5. Owned = {}
  BY <1>1, <1>2 DEF Owned
<1> QED
  BY <1>1, <1>2, <1>4, <1>5 DEF OwnInv, BlocksOwnedOnce

LEMMA WillStep ==
  ASSUME OwnInv, NEW i \in Object, NEW r \in Ref,
         CreateWill(i) \/ SetWillTopic(i, r) \/ SetWillPayload(i, r)
  PROVE  OwnInv' /\ OnlyTextLost
<1>0. "will" \in Class /\ Empty \in Ref /\ Null \in Ref
  BY DEF Class, Ref
<1>1. CASE CreateWill(i)
  <2>1. Free(i, "will")
    BY <1>1 DEF CreateWill
  <2>2. \A o : Keeps(Blank("will"), o) /\ Change(i, o) => OwnInv' /\ OnlyTextLost
    BY <1>0, <2>1, NewKeeps
  <2>3. CASE Change(i, DefaultWill("will"))
    <3>1. Keeps(Blank("will"), DefaultWill("will"))
      BY <1>0, DefaultTyped DEF Default
    <3> QED
      BY <2>2, <2>3, <3>1
  <2>4. ASSUME NEW t \in Ref, NEW p \in Ref,
               Change(i, WillFrom(Blank("will"), [topic |-> t, payload |-> p]))
        PROVE  OwnInv' /\ OnlyTextLost
    <3>1. Keeps(Blank("will"), WillFrom(Blank("will"), [topic |-> t, payload |-> p]))
      BY <1>0, BlankTyped, WillFromKeeps
    <3> QED
      BY <2>2, <2>4, <3>1
  <2>5. ASSUME NEW m \in Object
        PROVE  /\ (IF obj[m].topic = Null THEN Empty ELSE obj[m].topic) \in Ref
               /\ (IF obj[m].payload = Null THEN Empty ELSE obj[m].payload) \in Ref
    BY <1>0, OwnersApart, MembersTyped
  <2> QED
    BY <1>1, <2>3, <2>4, <2>5 DEF CreateWill
<1>2. CASE SetWillTopic(i, r)
  <2>1. Keeps(obj[i], WillSetTopic(obj[i], r)) /\ obj[i].class # "none"
    BY <1>2, OwnersApart, WillSetTopicKeeps DEF SetWillTopic, Is
  <2> QED
    BY <1>2, <2>1, ChangeOwns DEF SetWillTopic
<1>3. CASE SetWillPayload(i, r)
  <2>1. Keeps(obj[i], WillSetPayload(obj[i], r)) /\ obj[i].class # "none"
    BY <1>3, OwnersApart, WillSetPayloadKeeps DEF SetWillPayload, Is
  <2> QED
    BY <1>3, <2>1, ChangeOwns DEF SetWillPayload
<1> QED
  BY <1>1, <1>2, <1>3

LEMMA CaPathKeeps ==
  ASSUME NEW o \in Record, NEW t \in Text \cup {Null}, NEW p \in Pointer
  PROVE  Keeps(o, [o EXCEPT !.caPath = t, !.cCaPath = p])
<1> DEFINE a == [o EXCEPT !.caPath = t]
<1>1. Keeps(o, a)
  BY TextKeeps
<1>2. a \in Record
  BY <1>1 DEF Keeps
<1> HIDE DEF a
<1>3. Keeps(a, [a EXCEPT !.cCaPath = p])
  BY <1>2, PointerKeeps
<1> QED
  BY <1>1, <1>3, KeepsTransitive DEF a

LEMMA SslStep ==
  ASSUME OwnInv, NEW i \in Object, NEW t \in Text \cup {Null},
         \/ CreateSsl(i) \/ SetCaPath(i, t)
         \/ \E s \in SslString : SetSslString(i, s, t)
  PROVE  OwnInv' /\ OnlyTextLost
<1>1. CASE CreateSsl(i)
  <2>1. PICK str \in [SslString -> Text \cup {Null}] : Change(i, NewSsl(i, str))
    BY <1>1 DEF CreateSsl
  <2> DEFINE a == [Blank("ssl") EXCEPT !.str = str]
  <2>2. "ssl" \in Class
    BY DEF Class
  <2>3. Keeps(Blank("ssl"), a)
    BY <2>2, BlankTyped, StringsKeep
  <2>4. a \in Record
    BY <2>3 DEF Keeps
  <2> HIDE DEF a
  <2>5. Keeps(a, SslUpdate(i, a))
    BY <2>4, SslUpdateKeeps
  <2>6. Keeps(Blank("ssl"), NewSsl(i, str))
    BY <2>3, <2>5, KeepsTransitive DEF NewSsl, a
  <2> QED
    BY <1>1, <2>1, <2>2, <2>6, NewKeeps DEF CreateSsl
<1>2. ASSUME NEW s \in SslString, SetSslString(i, s, t)
      PROVE  OwnInv' /\ OnlyTextLost
  <2>1. Keeps(obj[i], WithString(i, obj[i], s, t)) /\ obj[i].class # "none"
    BY <1>2, OwnersApart, WithStringKeeps DEF SetSslString, Is
  <2> QED
    BY <1>2, <2>1, ChangeOwns DEF SetSslString
<1>3. CASE SetCaPath(i, t)
  <2>1. Keeps(obj[i], [obj[i] EXCEPT !.caPath = t, !.cCaPath = At(i, t)])
    BY OwnersApart, CaPathKeeps, AtTyped
  <2>2. obj[i].class # "none"
    BY <1>3 DEF SetCaPath, Is
  <2> QED
    BY <1>3, <2>1, <2>2, ChangeOwns DEF SetCaPath
<1> QED
  BY <1>1, <1>2, <1>3

LEMMA ServersKeep ==
  ASSUME NEW o \in Record, NEW j \in Object \cup {Null}, NEW p \in Pointer
  PROVE  Keeps(o, [o EXCEPT !.servers = j, !.cServers = p])
<1> DEFINE a == [o EXCEPT !.servers = j]
<1>1. Keeps(o, a)
  BY ObjectKeeps
<1>2. a \in Record
  BY <1>1 DEF Keeps
<1> HIDE DEF a
<1>3. Keeps(a, [a EXCEPT !.cServers = p])
  BY <1>2, PointerKeeps
<1> QED
  BY <1>1, <1>3, KeepsTransitive DEF a

LEMMA ConnectStep ==
  ASSUME OwnInv, NEW i \in Object, NEW j \in Object \cup {Null}, NEW r \in Ref,
         \/ CreateConnect(i) \/ SetCredentials(i, r) \/ SetServers(i, j)
         \/ j \in Object /\ (SetConnectWill(i, j) \/ SetConnectSsl(i, j))
  PROVE  OwnInv' /\ OnlyTextLost
<1>0. /\ "connect" \in Class /\ obj[i] \in Record
      /\ j \in Object => obj[j] \in Record
      /\ Null \in Pointer
  BY OwnersApart DEF Class, Pointer
<1>1. CASE CreateConnect(i)
  <2>1. Keeps(Blank("connect"), DefaultWill("connect"))
    BY <1>0, DefaultTyped DEF Default
  <2>2. DefaultWill("connect") \in Record
    BY <2>1 DEF Keeps
  <2>3. \A u, p \in Ref :
          Keeps(Blank("connect"),
                SetPassword(SetUserName(DefaultWill("connect"), u), p))
    BY <2>1, <2>2, CredentialsKeep, KeepsTransitive
  <2> QED
    BY <1>0, <1>1, <2>1, <2>3, NewKeeps DEF CreateConnect
<1>2. CASE SetCredentials(i, r)
  <2>1. Keeps(obj[i], SetUserName(obj[i], r)) /\ Keeps(obj[i], SetPassword(obj[i], r))
    BY <1>0, SetUserNameKeeps, SetPasswordKeeps
  <2>2. obj[i].class # "none"
    BY <1>2 DEF SetCredentials, Is
  <2> QED
    BY <1>2, <2>1, <2>2, ChangeOwns DEF SetCredentials
<1>3. CASE SetServers(i, j)
  <2>1. obj[i].class # "none"
    BY <1>3 DEF SetServers, Is
  <2>2. \A p \in Pointer : Keeps(obj[i], [obj[i] EXCEPT !.servers = j, !.cServers = p])
    BY <1>0, ServersKeep
  <2>3. j \in Object => obj[j].cArr \in Pointer
    BY <1>0, MembersTyped
  <2>4. CASE j = Null
    <3>1. Change(i, [obj[i] EXCEPT !.servers = j, !.cServers = Null])
      BY <1>3, <2>4 DEF SetServers
    <3> QED
      BY <1>0, <2>1, <2>2, <3>1, ChangeOwns
  <2>5. CASE j # Null
    <3>1. Change(i, [obj[i] EXCEPT !.servers = j, !.cServers = obj[j].cArr])
      BY <1>3, <2>5 DEF SetServers
    <3> QED
      BY <2>1, <2>2, <2>3, <2>5, <3>1, ChangeOwns
  <2> QED
    BY <2>4, <2>5
<1>4. CASE j \in Object /\ SetConnectWill(i, j)
  <2>1. Keeps(obj[i], SetWill(i, obj[i], obj[j]))
    BY <1>0, <1>4, SetWillKeeps
  <2> QED
    BY <1>4, <2>1, ChangeOwns DEF SetConnectWill, Is
<1>5. CASE j \in Object /\ SetConnectSsl(i, j)
  <2>1. Keeps(obj[i], SetSsl(i, obj[i], obj[j]))
    BY <1>0, <1>5, SetSslKeeps
  <2> QED
    BY <1>5, <2>1, ChangeOwns DEF SetConnectSsl, Is
<1> QED
  BY <1>1, <1>2, <1>3, <1>4, <1>5

LEMMA NewMessageShaped ==
  ASSUME NEW t \in Ref, NEW p \in Ref, NEW b \in Block \cup {Null}
  PROVE  LET n == NewMessage(t, p, b)
         IN  /\ n \in Record /\ n.class = "message" /\ Shape(n)
             /\ Blocks(n) = {b} \ {Null}
<1> DEFINE a == [Blank("message") EXCEPT !.topic = t]
           c == [a EXCEPT !.props = b]
           d == [c EXCEPT !.cProps = b]
<1>0. "message" \in Class
  BY DEF Class
<1>1. Keeps(Blank("message"), a)
  BY <1>0, BlankTyped, RefKeeps
<1>2. /\ a \in Record /\ a.class = "message"
      /\ a.value = Null /\ a.willProps = Null
  BY <1>0, <1>1, BlankTyped DEF Keeps
<1> HIDE DEF a
<1>3. /\ c \in Record /\ c.class = "message" /\ c.props = b
      /\ c.value = Null /\ c.willProps = Null
  BY <1>2, BlockTyped
<1> HIDE DEF c
<1>4. Shape(c) /\ Blocks(c) = {b} \ {Null}
  BY <1>3 DEF Shape, Blocks
<1>5. Keeps(c, d)
  BY <1>3, ListKeeps
<1>6. d \in Record
  BY <1>5 DEF Keeps
<1> HIDE DEF d
<1>7. Keeps(d, MessageSetPayload(d, p))
  BY <1>6, MessageSetPayloadKeeps
<1>8. Keeps(c, MessageSetPayload(d, p))
  BY <1>5, <1>7, KeepsTransitive
<1>9. NewMessage(t, p, b) = MessageSetPayload(d, p)
  BY DEF NewMessage, d, c, a
<1> QED
  BY <1>3, <1>4, <1>8, <1>9, BlocksKept DEF Keeps

LEMMA MessageStep ==
  ASSUME OwnInv, NEW i \in Object, NEW r \in Ref,
         \/ CreateMessage(i) \/ SetMessageTopic(i, r)
         \/ SetMessagePayload(i, r) \/ ClearPayload(i)
  PROVE  OwnInv' /\ OnlyTextLost
<1>0. obj[i] \in Record /\ Null \in Ref /\ Empty \in Ref /\ "message" \in Class
  BY OwnersApart DEF Ref, Class
<1>1. CASE CreateMessage(i)
  <2>1. PICK t \in Ref, p \in Ref, b \in Fresh \cup {Null} :
          Put(i, NewMessage(t, p, b), {}, {b})
    BY <1>1 DEF CreateMessage
  <2>2. b \in Block \cup {Null}
    BY DEF Fresh
  <2> DEFINE n == NewMessage(t, p, b)
  <2>3. n \in Record /\ n.class = "message" /\ Shape(n) /\ Blocks(n) = {b} \ {Null}
    BY <2>2, NewMessageShaped
  <2>4. Free(i, "message")
    BY <1>1 DEF CreateMessage
  <2> HIDE DEF n
  <2>5. Put(i, n, {}, {b})
    BY <2>1 DEF n
  <2> QED
    BY <1>0, <2>3, <2>4, <2>5, NewOwns
<1>2. ASSUME NEW p \in Ref, SetMessagePayload(i, p)
      PROVE  OwnInv' /\ OnlyTextLost
  <2>1. Keeps(obj[i], MessageSetPayload(obj[i], p)) /\ obj[i].class # "none"
    BY <1>0, <1>2, MessageSetPayloadKeeps DEF SetMessagePayload, Is
  <2> QED
    BY <1>2, <2>1, ChangeOwns DEF SetMessagePayload
<1>3. CASE SetMessageTopic(i, r)
  <2> DEFINE t == IF obj[i].topic = Null THEN Empty ELSE r
  <2>1. t \in Ref
    BY <1>0
  <2>2. Change(i, [obj[i] EXCEPT !.topic = t]) /\ obj[i].class # "none"
    BY <1>3 DEF SetMessageTopic, Is
  <2> HIDE DEF t
  <2>3. Keeps(obj[i], [obj[i] EXCEPT !.topic = t])
    BY <1>0, <2>1, RefKeeps
  <2> QED
    BY <2>2, <2>3, ChangeOwns
<1> QED
  BY <1>0, <1>1, <1>2, <1>3 DEF ClearPayload

LEMMA TokenStep ==
  ASSUME OwnInv, NEW i \in Object, NEW t \in Shared \cup {Null},
         \/ CreateDisconnect(i) \/ SetToken(i, t)
         \/ CreateResponse(i) \/ SetResponseToken(i, t)
  PROVE  OwnInv' /\ OnlyTextLost
<1>0. /\ obj[i] \in Record /\ Shared \cup {Null} \subseteq Ref
      /\ "disconnect" \in Class /\ "response" \in Class
  BY OwnersApart DEF Ref, Class
<1>1. CASE CreateDisconnect(i)
  <2>1. Keeps(Blank("disconnect"), Blank("disconnect"))
    BY <1>0, BlankTyped DEF Keeps
  <2> QED
    BY <1>0, <1>1, <2>1, NewKeeps DEF CreateDisconnect
<1>2. CASE CreateResponse(i)
  <2>1. PICK s \in Shared \cup {Null} : Change(i, NewResponse(s))
    BY <1>2 DEF CreateResponse
  <2>2. Keeps(Blank("response"), NewResponse(s))
    BY <1>0, BlankTyped, SetContextKeeps DEF NewResponse
  <2> QED
    BY <1>0, <1>2, <2>1, <2>2, NewKeeps DEF CreateResponse
<1>3. CASE SetToken(i, t) \/ SetResponseToken(i, t)
  <2>1. Keeps(obj[i], SetContext(obj[i], t))
    BY <1>0, SetContextKeeps
  <2>2. Change(i, SetContext(obj[i], t)) /\ obj[i].class # "none"
    BY <1>3 DEF SetToken, SetResponseToken, SetContext, Is
  <2> QED
    BY <2>1, <2>2, ChangeOwns
<1> QED
  BY <1>1, <1>2, <1>3

LEMMA TextStep ==
  ASSUME OwnInv, NEW i \in Object, NEW t \in Text \cup {Null},
         CreateStrings(i) \/ ChangeStrings(i, t) \/ SetSubscribeOptions(i, t)
  PROVE  OwnInv' /\ OnlyTextLost
<1>0. obj[i] \in Record /\ "strings" \in Class /\ Blank("strings") \in Record
  BY OwnersApart, BlankTyped DEF Class
<1>1. CASE CreateStrings(i)
  <2>1. PICK s \in Text \cup {Null} : Change(i, NewStrings(i, s))
    BY <1>1 DEF CreateStrings
  <2>2. Keeps(Blank("strings"), NewStrings(i, s))
    BY <1>0, UpdateCArrKeeps DEF NewStrings
  <2> QED
    BY <1>0, <1>1, <2>1, <2>2, NewKeeps DEF CreateStrings
<1>2. CASE ChangeStrings(i, t)
  <2>1. Keeps(obj[i], UpdateCArr(i, [obj[i] EXCEPT !.coll = t]))
    BY <1>0, UpdateCArrKeeps
  <2>2. obj[i].class # "none"
    BY <1>2 DEF ChangeStrings, Is
  <2> QED
    BY <1>2, <2>1, <2>2, ChangeOwns DEF ChangeStrings
<1>3. CASE SetSubscribeOptions(i, t)
  <2>1. Keeps(obj[i], [obj[i] EXCEPT !.coll = t, !.cArr = At(i, t)])
    BY <1>0, AtTyped, ArrayKeeps
  <2>2. obj[i].class # "none"
    BY <1>3 DEF SetSubscribeOptions, Is
  <2> QED
    BY <1>3, <2>1, <2>2, ChangeOwns DEF SetSubscribeOptions
<1> QED
  BY <1>1, <1>2, <1>3

\* A list's array is replaced by b, which it had or which is fresh.
LEMMA ArrayReplaced ==
  ASSUME OwnInv, NEW i \in Object, Is(i, "list"),
         NEW b \in Fresh \cup {obj[i].props, Null},
         NEW taken \in {{}, {b}}, taken \ {Null} = {b} \ {Null},
         Put(i, [obj[i] EXCEPT !.props = b], {obj[i].props}, taken)
  PROVE  OwnInv' /\ OnlyTextLost
<1> DEFINE n == [obj[i] EXCEPT !.props = b]
<1>1. /\ obj[i] \in Record /\ Shape(obj[i]) /\ obj[i].class = "list"
      /\ obj[i].props \in Block \cup {Null}
  BY OwnersApart, MembersTyped DEF Is
<1>2. b \in Block \cup {Null}
  BY <1>1 DEF Fresh
<1>3. /\ n \in Record /\ n.class = "list" /\ n.props = b
      /\ n.value = obj[i].value /\ n.willProps = obj[i].willProps
  BY <1>1, <1>2, BlockTyped
<1>4. Put(i, n, {obj[i].props}, taken)
  OBVIOUS
<1> HIDE DEF n
<1>5. /\ Shape(n) /\ Blocks(n) = {b} \ {Null}
      /\ Blocks(obj[i]) = {obj[i].props} \ {Null}
  BY <1>1, <1>3 DEF Shape, Blocks
<1>6. Put(i, n, Blocks(obj[i]), taken)
  <2>1. Null \notin heap
    BY OptionsAssumption DEF OwnInv, TypeOK
  <2> QED
    BY <1>4, <1>5, <2>1 DEF Put
<1> QED
  BY <1>2, <1>3, <1>5, <1>6, PutOwns DEF Fresh

LEMMA ListStep ==
  ASSUME OwnInv, NEW i \in Object,
         CreateList(i) \/ Add(i) \/ Clear(i) \/ CreateProperty(i)
  PROVE  OwnInv' /\ OnlyTextLost
<1>0. /\ "list" \in Class /\ "property" \in Class
      /\ Blank("list") \in Record /\ Blank("property") \in Record
      /\ Fresh \subseteq Block
  BY BlankTyped DEF Class, Fresh
<1>1. CASE CreateList(i)
  <2>1. PICK b \in Fresh \cup {Null} : Put(i, NewList(b), {}, {b})
    BY <1>1 DEF CreateList
  <2> DEFINE n == NewList(b)
  <2>2. /\ n \in Record /\ n.class = "list" /\ n.props = b
        /\ n.value = Null /\ n.willProps = Null
    <3>1. Blank("list").class = "list" /\ Blank("list").value = Null
          /\ Blank("list").willProps = Null /\ b \in Block \cup {Null}
      BY <1>0, BlankTyped
    <3> HIDE DEF n
    <3>2. n = [Blank("list") EXCEPT !.props = b]
      BY DEF n, NewList
    <3> QED
      BY <1>0, <3>1, <3>2, BlockTyped
  <2>3. Put(i, n, {}, {b}) /\ Free(i, "list")
    BY <1>1, <2>1 DEF CreateList
  <2> HIDE DEF n
  <2>4. Shape(n) /\ Blocks(n) = {b} \ {Null}
    BY <2>2 DEF Shape, Blocks
  <2> QED
    BY <1>0, <2>2, <2>3, <2>4, NewOwns
<1>2. CASE CreateProperty(i)
  <2>1. PICK b \in Fresh \cup {Null} : Put(i, NewProperty(b), {}, {b})
    BY <1>2 DEF CreateProperty
  <2> DEFINE n == NewProperty(b)
  <2>2. /\ n \in Record /\ n.class = "property" /\ n.value = b
        /\ n.props = Null /\ n.willProps = Null
    <3>1. Blank("property").class = "property" /\ Blank("property").props = Null
          /\ Blank("property").willProps = Null /\ b \in Block \cup {Null}
      BY <1>0, BlankTyped
    <3> HIDE DEF n
    <3>2. n = [Blank("property") EXCEPT !.value = b]
      BY DEF n, NewProperty
    <3> QED
      BY <1>0, <3>1, <3>2, BlockTyped
  <2>3. Put(i, n, {}, {b}) /\ Free(i, "property")
    BY <1>2, <2>1 DEF CreateProperty
  <2> HIDE DEF n
  <2>4. Shape(n) /\ Blocks(n) = {b} \ {Null}
    BY <2>2 DEF Shape, Blocks
  <2> QED
    BY <1>0, <2>2, <2>3, <2>4, NewOwns
<1>3. CASE Add(i)
  <2>1. PICK b \in (Fresh \cup {obj[i].props}) \ {Null} :
          Put(i, [obj[i] EXCEPT !.props = b], {obj[i].props}, {b})
    BY <1>3 DEF Add
  <2> QED
    BY <1>3, <2>1, ArrayReplaced DEF Add
<1>4. CASE Clear(i)
  BY <1>4, ArrayReplaced DEF Clear
<1> QED
  BY <1>1, <1>2, <1>3, <1>4

LEMMA SetPropertiesStep ==
  ASSUME OwnInv, NEW i \in Object, NEW j \in Object, SetProperties(i, j)
  PROVE  OwnInv' /\ OnlyTextLost
<1>1. PICK b \in Fresh \cup Blocks(obj[i]) :
        LET c == CopyIn(obj[j].props, b)
        IN  Put(i, WithList(i, obj[i], c), Blocks(obj[i]), {c})
  BY DEF SetProperties
<1> DEFINE c == CopyIn(obj[j].props, b)
           n == WithList(i, obj[i], c)
<1>2. /\ obj[i] \in Record /\ Shape(obj[i]) /\ Blocks(obj[i]) \subseteq Block
      /\ obj[i].class \in {"will", "connect", "message", "disconnect"}
  BY OwnersApart, BlocksShaped DEF SetProperties
<1>3. c \in {b, Null} /\ c \in Block \cup {Null}
  BY <1>2 DEF CopyIn, Fresh
<1>4. Put(i, n, Blocks(obj[i]), {c})
  BY <1>1
<1> HIDE DEF c
<1>5. /\ n \in Record /\ n.class = obj[i].class /\ Shape(n)
      /\ Blocks(n) = {c} \ {Null}
  BY <1>2, <1>3, WithListShaped
<1> HIDE DEF n
<1>6. n.class # "none" /\ {c} \in SUBSET (Block \cup {Null})
  BY <1>2, <1>3, <1>5
<1>7. \A x \in Blocks(n) : /\ x \in heap => x \in Blocks(obj[i])
                           /\ x \in {c}
  BY <1>3, <1>5 DEF Fresh
<1> QED
  BY <1>4, <1>5, <1>6, <1>7, PutOwns

LEMMA CopyStep ==
  ASSUME OwnInv, NEW i \in Object, NEW j \in Object,
         CopyConstruct(i, j) \/ CopyAssign(i, j)
  PROVE  OwnInv' /\ OnlyTextLost
<1>0. /\ obj[i] \in Record /\ Shape(obj[i]) /\ Blocks(obj[i]) \subseteq heap
      /\ obj[j] \in Record /\ Shape(obj[j])
      /\ Fresh \subseteq Block /\ Blocks(obj[i]) \subseteq Block
  BY OwnersApart, BlocksShaped DEF Fresh
<1>1. CASE CopyConstruct(i, j)
  <2> DEFINE class == obj[j].class
             d == Default(class)
  <2>1. class \in Class /\ Free(i, class)
    BY <1>0, <1>1, MembersTyped DEF CopyConstruct, Is
  <2>2. PICK b \in Fresh \cup {Null} :
          LET c == Derived(CopyOf(i, d, obj[j], b))
          IN  Put(i, c, {}, Blocks(c))
    BY <1>1 DEF CopyConstruct
  <2> DEFINE c == Derived(CopyOf(i, d, obj[j], b))
  <2>3. Put(i, c, {}, Blocks(c))
    BY <2>2
  <2> HIDE DEF class
  <2>4. Keeps(Blank(class), d) /\ class # "none"
    BY <2>1, DefaultTyped DEF Class
  <2>5. d \in Record /\ d.class = class /\ Shape(d) /\ Blocks(d) = {}
    BY <2>1, <2>4, BlankTyped, BlankShaped, BlocksKept DEF Keeps
  <2> HIDE DEF d
  <2>6. /\ c \in Record /\ c.class = class /\ Shape(c)
        /\ Blocks(c) \subseteq {b} \ {Null}
    <3>1. b \in Block \cup {Null} /\ obj[j].class = d.class
      BY <1>0, <2>5 DEF class
    <3> QED
      BY <1>0, <2>4, <2>5, <3>1, CopyShaped
  <2> HIDE DEF c
  <2>7. Null \notin Blocks(c)
    BY DEF Blocks
  <2> QED
    BY <2>1, <2>3, <2>6, <2>7, NewOwns
<1>2. CASE CopyAssign(i, j)
  <2>1. obj[i].class # "none"
    BY <1>2 DEF CopyAssign, Is
  <2>2. PICK b \in Fresh \cup Freed(obj[i]) :
          LET c == Derived(CopyOf(i, obj[i], obj[j], b))
          IN  Put(i, c, Freed(obj[i]), Blocks(c))
    BY <1>2 DEF CopyAssign
  <2> DEFINE c == Derived(CopyOf(i, obj[i], obj[j], b))
             list == obj[i].class \in {"list", "property"}
  <2>3. Put(i, c, Freed(obj[i]), Blocks(c))
    BY <2>2
  <2>4. b \in Block \cup {Null} /\ (b \in heap => b \in Freed(obj[i]))
    BY <1>0 DEF Freed, Fresh
  <2>5. /\ c \in Record /\ c.class = obj[i].class /\ Shape(c)
        /\ list => Blocks(c) \subseteq {b} \ {Null}
        /\ ~list => Blocks(c) = Blocks(obj[i])
    BY <1>0, <2>1, <2>4, CopyShaped
  <2> HIDE DEF c
  <2>6. Blocks(c) \subseteq Block /\ Freed(obj[i]) \subseteq Blocks(obj[i])
    BY <2>5, BlocksShaped DEF Freed
  <2>7. \A x \in Blocks(c) : x \in heap => x \in Blocks(obj[i])
    BY <2>4, <2>5, <2>6
  <2>8. \A x \in Blocks(obj[i]) \ Freed(obj[i]) :
          x \in Blocks(c) \/ (obj[i].value = x /\ c.class = "property")
    BY <1>0, <2>5, BlocksShaped DEF Freed
  <2>9. Blocks(c) \in SUBSET (Block \cup {Null}) /\ c.class # "none"
    BY <2>1, <2>5, <2>6
  <2> QED
    BY <2>3, <2>5, <2>6, <2>7, <2>8, <2>9, PutOwns
<1> QED
  BY <1>1, <1>2

LEMMA MoveStep ==
  ASSUME OwnInv, NEW i \in Object, NEW j \in Object,
         MoveConstruct(i, j) \/ MoveAssign(i, j)
  PROVE  OwnInv' /\ OnlyTextLost
<1>0. /\ obj[i] \in Record /\ Shape(obj[i])
      /\ obj[j] \in Record /\ Shape(obj[j])
      /\ i # j => Blocks(obj[i]) \cap Blocks(obj[j]) = {}
  BY OwnersApart
<1>1. CASE MoveConstruct(i, j)
  <2> DEFINE class == obj[j].class
             d == Default(class)
             a == Derived(IF Is(j, "connect") THEN ConnectMoved(i, obj[j])
                          ELSE MoveOf(i, Default(class), obj[j]))
             b == Remains(obj[j])
             shares == class \in {"list", "property"}
  <2>1. class \in Class /\ class # "none" /\ Free(i, class)
    BY <1>0, <1>1, MembersTyped DEF MoveConstruct, Is
  <2>2. i # j
    BY <1>1 DEF MoveConstruct, Is, Free
  <2>3. obj' = [obj EXCEPT ![i] = a, ![j] = b] /\ heap' = heap /\ used' = used
    BY <1>1, <2>2 DEF MoveConstruct
  <2>4. Blocks(obj[i]) = {}
    BY <2>1, FreeIsBlank
  <2>5. /\ b \in Record /\ b.class = class /\ Shape(b)
        /\ shares => Blocks(b) = {}
        /\ ~shares => Blocks(b) = Blocks(obj[j])
    BY <1>0, <2>1, RemainsShaped
  <2> HIDE DEF b
  <2>6. /\ a \in Record /\ a.class = class /\ Shape(a)
        /\ shares => Blocks(a) = Blocks(obj[j])
        /\ ~shares => Blocks(a) = {}
    <3>1. CASE class = "connect"
      <4> DEFINE m == ConnectMoved(i, obj[j])
      <4>1. Keeps(Blank("connect"), m)
        BY <1>0, ConnectMovedKeeps
      <4>2. m \in Record
        BY <4>1 DEF Keeps
      <4>3. a = Derived(m)
        BY <3>1 DEF Is
      <4> HIDE DEF a, m
      <4>4. Keeps(Blank("connect"), a)
        BY <4>1, <4>2, <4>3, DerivedKeeps, KeepsTransitive
      <4> QED
        BY <2>1, <3>1, <4>4, BlankTyped, BlankShaped, BlocksKept DEF Keeps
    <3>2. CASE class # "connect"
      <4>1. a = Derived(MoveOf(i, d, obj[j]))
        BY <3>2 DEF Is
      <4> HIDE DEF a
      <4>2. Keeps(Blank(class), d)
        BY <2>1, DefaultTyped
      <4>3. d \in Record /\ d.class = class /\ Shape(d) /\ Blocks(d) = {}
        BY <2>1, <4>2, BlankTyped, BlankShaped, BlocksKept DEF Keeps
      <4> HIDE DEF d
      <4> QED
        BY <1>0, <2>1, <4>1, <4>3, MoveShaped
    <3> QED
      BY <3>1, <3>2
  <2> HIDE DEF a
  <2>7. {} \subseteq Blocks(obj[i]) /\ heap' = heap \ {}
    BY <2>3
  <2>8. /\ Blocks(a) \cap Blocks(b) = {}
        /\ Blocks(a) \cup Blocks(b) = Blocks(obj[j])
    BY <2>5, <2>6
  <2> HIDE DEF class, shares
  <2>9. a.class # "none" /\ b.class # "none"
    BY <2>1, <2>5, <2>6
  <2> QED
    BY <2>2, <2>3, <2>4, <2>5, <2>6, <2>7, <2>8, <2>9, MoveOwns
<1>2. CASE MoveAssign(i, j)
  <2> DEFINE a == Derived(MoveOf(i, obj[i], obj[j]))
             b == IF obj[j].class = "connect" THEN NoCredentials(obj[j])
                                              ELSE Remains(obj[j])
             shares == obj[i].class \in {"list", "property"}
  <2>1. i # j /\ obj[i].class # "none" /\ obj[j].class = obj[i].class
    BY <1>2 DEF MoveAssign, Is
  <2>2. /\ obj' = [obj EXCEPT ![i] = a, ![j] = b]
        /\ heap' = heap \ Freed(obj[i]) /\ used' = used
    BY <1>2, <2>1 DEF MoveAssign
  <2>3. /\ a \in Record /\ a.class = obj[i].class /\ Shape(a)
        /\ shares => Blocks(a) = Blocks(obj[j])
        /\ ~shares => Blocks(a) = Blocks(obj[i])
    BY <1>0, <2>1, MoveShaped
  <2> HIDE DEF a
  <2>4. /\ b \in Record /\ b.class = obj[i].class /\ Shape(b)
        /\ shares => Blocks(b) = {}
        /\ ~shares => Blocks(b) = Blocks(obj[j])
    <3>1. CASE obj[j].class = "connect"
      <4>1. Keeps(obj[j], NoCredentials(obj[j]))
        BY <1>0, NoCredentialsKeeps
      <4> QED
        BY <1>0, <2>1, <3>1, <4>1, BlocksKept DEF Keeps
    <3>2. CASE obj[j].class # "connect"
      BY <1>0, <2>1, <3>2, RemainsShaped
    <3> QED
      BY <3>1, <3>2
  <2> HIDE DEF b
  <2>5. /\ Freed(obj[i]) \subseteq Blocks(obj[i])
        /\ ~shares => Freed(obj[i]) = {}
        /\ shares /\ obj[i].class # "property" => Freed(obj[i]) = Blocks(obj[i])
        /\ obj[i].class = "property" => Blocks(obj[i]) \subseteq {obj[i].value}
    BY <1>0, BlocksShaped DEF Freed
  <2>6. /\ Blocks(a) \cap Blocks(b) = {}
        /\ Blocks(a) \cup Blocks(b)
             \subseteq (Blocks(obj[i]) \ Freed(obj[i])) \cup Blocks(obj[j])
    BY <1>0, <2>1, <2>3, <2>4, <2>5
  <2>7. \A x \in (Blocks(obj[i]) \ Freed(obj[i])) \cup Blocks(obj[j]) :
          \/ x \in Blocks(a) \cup Blocks(b)
          \/ obj[i].value = x /\ a.class = "property"
    BY <2>3, <2>4, <2>5
  <2>8. a.class # "none" /\ b.class # "none"
    BY <2>1, <2>3, <2>4
  <2> HIDE DEF shares
  <2> QED
    BY <2>1, <2>2, <2>3, <2>4, <2>5, <2>6, <2>7, <2>8, MoveOwns
<1> QED
  BY <1>1, <1>2

LEMMA DestroyStep ==
  ASSUME OwnInv, NEW i \in Object, Destroy(i)
  PROVE  OwnInv' /\ OnlyTextLost
<1>1. Blank("none") \in Record /\ Shape(Blank("none")) /\ Blocks(Blank("none")) = {}
  BY BlankTyped, BlankShaped
<1>2. Put(i, Blank("none"), Blocks(obj[i]), {})
  BY DEF Destroy
<1> QED
  BY <1>1, <1>2, PutOwns

LEMMA StepOwns ==
  ASSUME OwnInv, [Next]_vars
  PROVE  OwnInv' /\ (OnlyTextLost \/ UNCHANGED vars)
<1>0. Null \in Ref /\ Null \in Shared \cup {Null} /\ Null \in Text \cup {Null}
  BY DEF Ref
<1>1. CASE UNCHANGED vars
  BY <1>1 DEF OwnInv, TypeOK, BlocksOwnedOnce, Owned, vars
<1>2. ASSUME NEW i \in Object,
             \/ CreateWill(i) \/ CreateSsl(i) \/ CreateConnect(i)
             \/ CreateMessage(i) \/ CreateDisconnect(i) \/ CreateResponse(i)
             \/ CreateList(i) \/ CreateProperty(i) \/ CreateStrings(i)
             \/ ClearPayload(i) \/ Add(i) \/ Clear(i)
             \/ SetServers(i, Null) \/ Destroy(i)
      PROVE  OwnInv' /\ OnlyTextLost
  <2>1. CASE CreateWill(i) \/ CreateSsl(i) \/ CreateConnect(i)
    BY <1>0, <2>1, WillStep, SslStep, ConnectStep
  <2>2. CASE CreateMessage(i) \/ CreateDisconnect(i) \/ CreateResponse(i)
    BY <1>0, <2>2, MessageStep, TokenStep
  <2>3. CASE \/ CreateList(i) \/ CreateProperty(i) \/ CreateStrings(i)
             \/ Add(i) \/ Clear(i)
    BY <1>0, <2>3, ListStep, TextStep
  <2>4. CASE ClearPayload(i) \/ SetServers(i, Null) \/ Destroy(i)
    BY <1>0, <2>4, MessageStep, ConnectStep, DestroyStep
  <2> QED
    BY <1>2, <2>1, <2>2, <2>3, <2>4
<1>3. ASSUME NEW i \in Object, NEW r \in Ref,
             \/ SetWillTopic(i, r) \/ SetWillPayload(i, r)
             \/ SetMessageTopic(i, r) \/ SetMessagePayload(i, r)
             \/ SetCredentials(i, r)
      PROVE  OwnInv' /\ OnlyTextLost
  BY <1>0, <1>3, WillStep, MessageStep, ConnectStep
<1>4. ASSUME NEW i \in Object, NEW t \in Shared \cup {Null},
             SetToken(i, t) \/ SetResponseToken(i, t)
      PROVE  OwnInv' /\ OnlyTextLost
  BY <1>4, TokenStep
<1>5. ASSUME NEW i \in Object, NEW t \in Text \cup {Null},
             \/ SetCaPath(i, t)
             \/ ChangeStrings(i, t) \/ SetSubscribeOptions(i, t)
             \/ \E s \in SslString : SetSslString(i, s, t)
      PROVE  OwnInv' /\ OnlyTextLost
  BY <1>5, SslStep, TextStep
<1>6. ASSUME NEW i \in Object, NEW j \in Object,
             \/ SetConnectWill(i, j) \/ SetConnectSsl(i, j) \/ SetServers(i, j)
             \/ SetProperties(i, j)
             \/ CopyConstruct(i, j) \/ MoveConstruct(i, j)
             \/ CopyAssign(i, j) \/ MoveAssign(i, j)
      PROVE  OwnInv' /\ OnlyTextLost
  <2>1. CASE SetConnectWill(i, j) \/ SetConnectSsl(i, j) \/ SetServers(i, j)
    BY <1>0, <2>1, ConnectStep
  <2> QED
    BY <1>6, <2>1, SetPropertiesStep, CopyStep, MoveStep
<1> QED
  BY <1>1, <1>2, <1>3, <1>4, <1>5, <1>6 DEF Next

-----------------------------------------------------------------------------
(* Theorems                                                                *)

\* The objects that constructors, setters, copies, moves and destructors make
\* are of their types, whatever the order of the calls.
THEOREM OptionsTypeCorrect == Spec => []TypeOK
<1>1. Init => OwnInv
  BY InitOwns
<1>2. OwnInv /\ [Next]_vars => OwnInv'
  BY StepOwns
<1>3. OwnInv => TypeOK
  BY DEF OwnInv
<1> QED
  BY <1>1, <1>2, <1>3, PTL DEF Spec

\* No block of properties has two owners, and what is owned is allocated:
\* MQTTProperties_free() and the destructors of properties free it once.
THEOREM OwnedOnce == Spec => []BlocksOwnedOnce
<1>1. Init => OwnInv
  BY InitOwns
<1>2. OwnInv /\ [Next]_vars => OwnInv'
  BY StepOwns
<1>3. OwnInv => BlocksOwnedOnce
  BY DEF OwnInv
<1> QED
  BY <1>1, <1>2, <1>3, PTL DEF Spec

\* What is lost is the text of a property object that was assigned to: the
\* lists lose nothing.
THEOREM LeaksOnlyText == Spec => OnlyPropertiesLeak
<1>1. Init => OwnInv
  BY InitOwns
<1>2. OwnInv /\ [Next]_vars => OwnInv'
  BY StepOwns
<1>3. OwnInv /\ [Next]_vars => [OnlyTextLost]_vars
  BY StepOwns
<1>4. Spec => [][OnlyTextLost]_vars
  BY <1>1, <1>2, <1>3, PTL DEF Spec
<1> QED
  BY <1>4 DEF OnlyPropertiesLeak, OnlyTextLost

=============================================================================
