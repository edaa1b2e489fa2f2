------------------------ MODULE OptionsPointerProofs ------------------------
(***************************************************************************)
(* Proofs about Options: which pointers of its objects lead to the         *)
(* object's own members, for any number of objects and any order of the    *)
(* calls that make, change, copy, move and destroy them.                   *)
(*                                                                         *)
(* What holds of an object is of that object alone (Own), so that a step   *)
(* is proved by what it makes of the one or two objects it changes.  The   *)
(* parts of Own say more than the properties do: which class may have      *)
(* which pointer, whether or not it was moved from.  Without that nothing  *)
(* is known of the copy of an object that was moved from.                  *)
(***************************************************************************)
EXTENDS OptionsProofs

\* A will in use is the object's own, and only connect_options has one.  A will
\* that is not in use has no properties in use, so that a copy of it has none of
\* the source's.
WillOwn(i, o) ==
  /\ {o.cWill, o.cWillProps} \subseteq {Null, i}
  /\ o.cWill = Null => o.cWillProps = Null
  /\ o.cWill # Null => o.class = "connect"
  /\ o.class = "message" => o.cPayload = CStr(o.payload)

\* The same of ssl options, and of credentials.
SslOwn(i, o) ==
  /\ o.cSsl \in {Null, i}
  /\ o.cSsl # Null => o.class = "connect"

CredentialsOwn(o) ==
  o.class # "connect" =>
    {o.userName, o.cUserName, o.password, o.cPassword} = {Null}

\* What the pointers lead to.  A move does not leave this of its source.
WillLeads(o) ==
  /\ o.class = "will" \/ o.cWill # Null =>
       o.cTopic = o.topic /\ o.cPayload = o.payload
  /\ o.cWill # Null => o.topic # Null /\ o.payload # Null

SslLeads(i, o) ==
  o.class = "ssl" \/ o.cSsl # Null =>
    \A s \in SslString : o.cStr[s] = At(i, o.str[s])

CredentialsLead(o) ==
  o.cUserName = CStr(o.userName) /\ o.cPassword = CStr(o.password)

Leads(i, o) == WillLeads(o) /\ SslLeads(i, o) /\ CredentialsLead(o)

StringsOwn(i, o) == o.class = "strings" => o.cArr = At(i, o.coll)

\* What UncopiedIsWhole says of one object.
Whole(i, o) ==
  ~o.copied /\ ~o.moved =>
    /\ o.class = "ssl" => o.cCaPath = At(i, o.caPath)
    /\ o.class \in {"message", "disconnect"} => o.cProps = o.props
    /\ o.class = "connect" => o.cProps \in {Null, i}
    /\ o.class = "response" => o.cArr = At(i, o.coll)
    /\ o.cTok = o.tok

Placed(i, o) ==
  WillOwn(i, o) /\ SslOwn(i, o) /\ CredentialsOwn(o) /\ StringsOwn(i, o)

Own(i, o) ==
  /\ Placed(i, o)
  /\ ~o.moved => Leads(i, o)
  /\ Whole(i, o)

PointersInv == \A i \in Object : Own(i, obj[i])


-----------------------------------------------------------------------------
(* Objects that are made, and setters                                      *)

LEMMA EmptyIsNotNull == Empty # Null
  BY OptionsAssumption

LEMMA BlankOwn ==
  ASSUME NEW i \in Object, NEW class \in Class \cup {"none"}
  PROVE  Own(i, Blank(class))
<1> DEFINE o == Blank(class)
<1>1. Placed(i, o)
  BY EmptyIsNotNull DEF Blank, Placed, WillOwn, SslOwn, CredentialsOwn,
                        StringsOwn, CStr, At
<1>2. Leads(i, o)
  BY EmptyIsNotNull DEF Blank, Leads, WillLeads, SslLeads, CredentialsLead,
                        CStr, At
<1>3. Whole(i, o)
  BY DEF Blank, Whole, At
<1> QED
  BY <1>1, <1>2, <1>3 DEF Own

\* The topic of a will that stands alone, or of a connect_options object's.
LEMMA WillSetTopicOwn ==
  ASSUME NEW i \in Object, NEW o \in Record, NEW r,
         Own(i, o),
         o.class # "message"
  PROVE  Own(i, WillSetTopic(o, r))
<1> DEFINE n == WillSetTopic(o, r)
<1>1. Placed(i, n)
  BY DEF WillSetTopic, Record, Own, Placed, WillOwn, SslOwn,
         CredentialsOwn, StringsOwn
<1>2. ~n.moved => Leads(i, n)
  BY EmptyIsNotNull DEF WillSetTopic, Record, Own, Placed, WillOwn,
         SslOwn, CredentialsOwn, Leads, WillLeads, SslLeads, CredentialsLead
<1>3. Whole(i, n)
  BY DEF WillSetTopic, Record, Own, Whole
<1> QED
  BY <1>1, <1>2, <1>3 DEF Own

LEMMA WillSetPayloadOwn ==
  ASSUME NEW i \in Object, NEW o \in Record, NEW r,
         Own(i, o),
         o.class # "message"
  PROVE  Own(i, WillSetPayload(o, r))
<1> DEFINE n == WillSetPayload(o, r)
<1>1. Placed(i, n)
  BY DEF WillSetPayload, Record, Own, Placed, WillOwn, SslOwn,
         CredentialsOwn, StringsOwn
<1>2. ~n.moved => Leads(i, n)
  BY EmptyIsNotNull DEF WillSetPayload, Record, Own, Placed, WillOwn,
         SslOwn, CredentialsOwn, Leads, WillLeads, SslLeads, CredentialsLead
<1>3. Whole(i, n)
  BY DEF WillSetPayload, Record, Own, Whole
<1> QED
  BY <1>1, <1>2, <1>3 DEF Own

LEMMA WillFromOwn ==
  ASSUME NEW i \in Object, NEW o \in Record, NEW src,
         src.topic \in Ref, src.payload \in Ref, Own(i, o),
         o.class # "message"
  PROVE  Own(i, WillFrom(o, src))
<1> DEFINE a == WillSetTopic(o, src.topic)
<1>1. Own(i, a)
  BY WillSetTopicOwn
<1>2. a \in Record /\ a.class # "message"
  BY WillSetTopicKeeps DEF Keeps
<1> HIDE DEF a
<1>3. Own(i, WillSetPayload(a, src.payload))
  BY <1>1, <1>2, WillSetPayloadOwn
<1> QED
  BY <1>3 DEF WillFrom, a

LEMMA DefaultOwn ==
  ASSUME NEW i \in Object, NEW class \in Class
  PROVE  Own(i, Default(class))
<1>1. Blank(class) \in Record /\ Blank(class).class = class /\ Own(i, Blank(class))
  BY BlankTyped, BlankOwn
<1>2. class # "message" => Own(i, DefaultWill(class))
  BY <1>1, WillSetTopicOwn DEF DefaultWill
<1> QED
  BY <1>1, <1>2 DEF Default

LEMMA SetWillOwn ==
  ASSUME NEW i \in Object, NEW o \in Record, NEW src \in Record,
         Own(i, o), o.class = "connect"
  PROVE  Own(i, SetWill(i, o, src))
<1> DEFINE n == SetWill(i, o, src)
<1>1. Placed(i, n)
  BY DEF SetWill, WillFrom, WillSetTopic, WillSetPayload, Record, Own, Placed, WillOwn, SslOwn,
         CredentialsOwn, StringsOwn
<1>2. ~n.moved => Leads(i, n)
  BY EmptyIsNotNull DEF SetWill, WillFrom, WillSetTopic, WillSetPayload, Record, Own, Placed, WillOwn,
         SslOwn, CredentialsOwn, Leads, WillLeads, SslLeads, CredentialsLead
<1>3. Whole(i, n)
  BY DEF SetWill, WillFrom, WillSetTopic, WillSetPayload, Record, Own, Whole
<1> QED
  BY <1>1, <1>2, <1>3 DEF Own

LEMMA SetSslOwn ==
  ASSUME NEW i \in Object, NEW o \in Record, NEW src \in Record,
         Own(i, o), o.class = "connect"
  PROVE  Own(i, SetSsl(i, o, src))
<1> DEFINE n == SetSsl(i, o, src)
<1>1. Placed(i, n)
  BY DEF SetSsl, SslFrom, SslUpdate, Record, Own, Placed, WillOwn, SslOwn,
         CredentialsOwn, StringsOwn
<1>2. ~n.moved => Leads(i, n)
  BY EmptyIsNotNull DEF SetSsl, SslFrom, SslUpdate, Record, Own, Placed, WillOwn,
         SslOwn, CredentialsOwn, Leads, WillLeads, SslLeads, CredentialsLead
<1>3. Whole(i, n)
  BY DEF SetSsl, SslFrom, SslUpdate, Record, Own, Whole
<1> QED
  BY <1>1, <1>2, <1>3 DEF Own

LEMMA SetUserNameOwn ==
  ASSUME NEW i \in Object, NEW o \in Record, NEW r,
         Own(i, o), o.class = "connect"
  PROVE  Own(i, SetUserName(o, r))
<1> DEFINE n == SetUserName(o, r)
<1>1. Placed(i, n)
  BY DEF SetUserName, Record, Own, Placed, WillOwn, SslOwn,
         CredentialsOwn, StringsOwn
<1>2. ~n.moved => Leads(i, n)
  BY EmptyIsNotNull DEF SetUserName, Record, Own, Placed, WillOwn,
         SslOwn, CredentialsOwn, Leads, WillLeads, SslLeads, CredentialsLead
<1>3. Whole(i, n)
  BY DEF SetUserName, Record, Own, Whole
<1> QED
  BY <1>1, <1>2, <1>3 DEF Own

LEMMA SetPasswordOwn ==
  ASSUME NEW i \in Object, NEW o \in Record, NEW r,
         Own(i, o), o.class = "connect"
  PROVE  Own(i, SetPassword(o, r))
<1> DEFINE n == SetPassword(o, r)
<1>1. Placed(i, n)
  BY DEF SetPassword, Record, Own, Placed, WillOwn, SslOwn,
         CredentialsOwn, StringsOwn
<1>2. ~n.moved => Leads(i, n)
  BY EmptyIsNotNull DEF SetPassword, Record, Own, Placed, WillOwn,
         SslOwn, CredentialsOwn, Leads, WillLeads, SslLeads, CredentialsLead
<1>3. Whole(i, n)
  BY DEF SetPassword, Record, Own, Whole
<1> QED
  BY <1>1, <1>2, <1>3 DEF Own

LEMMA WithStringOwn ==
  ASSUME NEW i \in Object, NEW o \in Record, NEW s \in SslString,
         NEW t, Own(i, o), o.class = "ssl"
  PROVE  Own(i, WithString(i, o, s, t))
<1> DEFINE n == WithString(i, o, s, t)
<1>1. Placed(i, n)
  BY DEF WithString, Record, Own, Placed, WillOwn, SslOwn,
         CredentialsOwn, StringsOwn
<1>2. ~n.moved => Leads(i, n)
  BY EmptyIsNotNull DEF WithString, Record, Own, Placed, WillOwn,
         SslOwn, CredentialsOwn, Leads, WillLeads, SslLeads, CredentialsLead
<1>3. Whole(i, n)
  BY DEF WithString, Record, Own, Whole
<1> QED
  BY <1>1, <1>2, <1>3 DEF Own

LEMMA CaPathOwn ==
  ASSUME NEW i \in Object, NEW o \in Record, NEW t,
         Own(i, o)
  PROVE  Own(i, [o EXCEPT !.caPath = t, !.cCaPath = At(i, t)])
<1> DEFINE n == [o EXCEPT !.caPath = t, !.cCaPath = At(i, t)]
<1>1. Placed(i, n)
  BY DEF Record, Own, Placed, WillOwn, SslOwn,
         CredentialsOwn, StringsOwn
<1>2. ~n.moved => Leads(i, n)
  BY EmptyIsNotNull DEF Record, Own, Placed, WillOwn,
         SslOwn, CredentialsOwn, Leads, WillLeads, SslLeads, CredentialsLead
<1>3. Whole(i, n)
  BY DEF Record, Own, Whole
<1> QED
  BY <1>1, <1>2, <1>3 DEF Own

LEMMA TokenOwn ==
  ASSUME NEW i \in Object, NEW o \in Record, NEW t,
         Own(i, o)
  PROVE  Own(i, [o EXCEPT !.tok = t, !.cTok = t])
<1> DEFINE n == [o EXCEPT !.tok = t, !.cTok = t]
<1>1. Placed(i, n)
  BY DEF Record, Own, Placed, WillOwn, SslOwn,
         CredentialsOwn, StringsOwn
<1>2. ~n.moved => Leads(i, n)
  BY EmptyIsNotNull DEF Record, Own, Placed, WillOwn,
         SslOwn, CredentialsOwn, Leads, WillLeads, SslLeads, CredentialsLead
<1>3. Whole(i, n)
  BY DEF Record, Own, Whole
<1> QED
  BY <1>1, <1>2, <1>3 DEF Own

LEMMA ServersOwn ==
  ASSUME NEW i \in Object, NEW o \in Record, NEW j, NEW p,
         Own(i, o)
  PROVE  Own(i, [o EXCEPT !.servers = j, !.cServers = p])
<1> DEFINE n == [o EXCEPT !.servers = j, !.cServers = p]
<1>1. Placed(i, n)
  BY DEF Record, Own, Placed, WillOwn, SslOwn,
         CredentialsOwn, StringsOwn
<1>2. ~n.moved => Leads(i, n)
  BY EmptyIsNotNull DEF Record, Own, Placed, WillOwn,
         SslOwn, CredentialsOwn, Leads, WillLeads, SslLeads, CredentialsLead
<1>3. Whole(i, n)
  BY DEF Record, Own, Whole
<1> QED
  BY <1>1, <1>2, <1>3 DEF Own

LEMMA MessageTopicOwn ==
  ASSUME NEW i \in Object, NEW o \in Record, NEW r,
         Own(i, o), o.class = "message"
  PROVE  Own(i, [o EXCEPT !.topic = r])
<1> DEFINE n == [o EXCEPT !.topic = r]
<1>1. Placed(i, n)
  BY DEF Record, Own, Placed, WillOwn, SslOwn,
         CredentialsOwn, StringsOwn
<1>2. ~n.moved => Leads(i, n)
  BY EmptyIsNotNull DEF Record, Own, Placed, WillOwn,
         SslOwn, CredentialsOwn, Leads, WillLeads, SslLeads, CredentialsLead
<1>3. Whole(i, n)
  BY DEF Record, Own, Whole
<1> QED
  BY <1>1, <1>2, <1>3 DEF Own

LEMMA MessagePayloadOwn ==
  ASSUME NEW i \in Object, NEW o \in Record, NEW r,
         Own(i, o), o.class = "message"
  PROVE  Own(i, MessageSetPayload(o, r))
<1> DEFINE n == MessageSetPayload(o, r)
<1>1. Placed(i, n)
  BY DEF MessageSetPayload, Record, Own, Placed, WillOwn, SslOwn,
         CredentialsOwn, StringsOwn
<1>2. ~n.moved => Leads(i, n)
  BY EmptyIsNotNull DEF MessageSetPayload, Record, Own, Placed, WillOwn,
         SslOwn, CredentialsOwn, Leads, WillLeads, SslLeads, CredentialsLead
<1>3. Whole(i, n)
  BY DEF MessageSetPayload, Record, Own, Whole
<1> QED
  BY <1>1, <1>2, <1>3 DEF Own

LEMMA ArrayOwn ==
  ASSUME NEW i \in Object, NEW o \in Record, NEW t,
         Own(i, o)
  PROVE  Own(i, [o EXCEPT !.coll = t, !.cArr = At(i, t)])
<1> DEFINE n == [o EXCEPT !.coll = t, !.cArr = At(i, t)]
<1>1. Placed(i, n)
  BY DEF Record, Own, Placed, WillOwn, SslOwn,
         CredentialsOwn, StringsOwn
<1>2. ~n.moved => Leads(i, n)
  BY EmptyIsNotNull DEF Record, Own, Placed, WillOwn,
         SslOwn, CredentialsOwn, Leads, WillLeads, SslLeads, CredentialsLead
<1>3. Whole(i, n)
  BY DEF Record, Own, Whole
<1> QED
  BY <1>1, <1>2, <1>3 DEF Own

\* Lists and properties are without pointers.
LEMMA ArrayReplacedOwn ==
  ASSUME NEW i \in Object, NEW o \in Record, NEW b,
         Own(i, o), o.class = "list"
  PROVE  Own(i, [o EXCEPT !.props = b])
<1> DEFINE n == [o EXCEPT !.props = b]
<1>1. Placed(i, n)
  BY DEF Record, Own, Placed, WillOwn, SslOwn,
         CredentialsOwn, StringsOwn
<1>2. ~n.moved => Leads(i, n)
  BY EmptyIsNotNull DEF Record, Own, Placed, WillOwn,
         SslOwn, CredentialsOwn, Leads, WillLeads, SslLeads, CredentialsLead
<1>3. Whole(i, n)
  BY DEF Record, Own, Whole
<1> QED
  BY <1>1, <1>2, <1>3 DEF Own

LEMMA ValueOwn ==
  ASSUME NEW i \in Object, NEW o \in Record, NEW b,
         Own(i, o)
  PROVE  Own(i, [o EXCEPT !.value = b])
<1> DEFINE n == [o EXCEPT !.value = b]
<1>1. Placed(i, n)
  BY DEF Record, Own, Placed, WillOwn, SslOwn,
         CredentialsOwn, StringsOwn
<1>2. ~n.moved => Leads(i, n)
  BY EmptyIsNotNull DEF Record, Own, Placed, WillOwn,
         SslOwn, CredentialsOwn, Leads, WillLeads, SslLeads, CredentialsLead
<1>3. Whole(i, n)
  BY DEF Record, Own, Whole
<1> QED
  BY <1>1, <1>2, <1>3 DEF Own

\* Each class of WithList has the pointer that goes with the block.
LEMMA WithListOwn ==
  ASSUME NEW i \in Object, NEW o \in Record, NEW b, Own(i, o)
  PROVE  Own(i, WithList(i, o, b))
<1>1. CASE o.class = "will"
  <2> DEFINE n == [o EXCEPT !.willProps = b]
  <2>1. Placed(i, n)
    BY <1>1 DEF Record, Own, Placed, WillOwn, SslOwn, CredentialsOwn, StringsOwn
  <2>2. ~n.moved => Leads(i, n)
    BY <1>1 DEF Record, Own, Leads, WillLeads, SslLeads, CredentialsLead
  <2>3. Whole(i, n)
    BY <1>1 DEF Record, Own, Whole
  <2> QED
    BY <1>1, <2>1, <2>2, <2>3 DEF WithList, Own
<1>2. CASE o.class = "connect"
  <2> DEFINE n == [o EXCEPT !.props = b, !.cProps = i]
  <2>1. Placed(i, n)
    BY <1>2 DEF Record, Own, Placed, WillOwn, SslOwn, CredentialsOwn, StringsOwn
  <2>2. ~n.moved => Leads(i, n)
    BY <1>2 DEF Record, Own, Leads, WillLeads, SslLeads, CredentialsLead
  <2>3. Whole(i, n)
    BY <1>2 DEF Record, Own, Whole
  <2> QED
    BY <1>2, <2>1, <2>2, <2>3 DEF WithList, Own
<1>3. CASE o.class \notin {"will", "connect"}
  <2> DEFINE n == [o EXCEPT !.props = b, !.cProps = b]
  <2>1. Placed(i, n)
    BY <1>3 DEF Record, Own, Placed, WillOwn, SslOwn, CredentialsOwn, StringsOwn
  <2>2. ~n.moved => Leads(i, n)
    BY <1>3 DEF Record, Own, Leads, WillLeads, SslLeads, CredentialsLead
  <2>3. Whole(i, n)
    BY <1>3 DEF Record, Own, Whole
  <2> QED
    BY <1>3, <2>1, <2>2, <2>3 DEF WithList, Own
<1> QED
  BY <1>1, <1>2, <1>3

-----------------------------------------------------------------------------
(* Copies and moves                                                        *)

LEMMA DerivedOwn ==
  ASSUME NEW i \in Object, NEW o \in Record, Placed(i, o), Leads(i, o)
  PROVE  Own(i, Derived(o))
<1> DEFINE n == Derived(o)
<1>1. Placed(i, n)
  BY DEF Derived, Record, Placed, WillOwn, SslOwn, CredentialsOwn, StringsOwn
<1>2. Leads(i, n)
  BY DEF Derived, Record, Leads, WillLeads, SslLeads, CredentialsLead
<1>3. Whole(i, n)
  BY DEF Derived, Record, Whole
<1> QED
  BY <1>1, <1>2, <1>3 DEF Own

\* Of a class without credentials only the wills and ssl options have more.
LEMMA PlacedLeads ==
  ASSUME NEW i, NEW o, Placed(i, o), o.class # "connect",
         o.class = "will" => o.cTopic = o.topic /\ o.cPayload = o.payload,
         o.class = "ssl" => \A s \in SslString : o.cStr[s] = At(i, o.str[s])
  PROVE  Leads(i, o)
<1>1. WillLeads(o) /\ SslLeads(i, o)
  BY DEF Placed, WillOwn, SslOwn, WillLeads, SslLeads
<1>2. CredentialsLead(o)
  BY EmptyIsNotNull DEF Placed, CredentialsOwn, CredentialsLead, CStr
<1> QED
  BY <1>1, <1>2 DEF Leads

\* The pointers of the struct are the source's until will and ssl options have
\* been copied too.
LEMMA CopyStructGives ==
  ASSUME NEW o \in Record, NEW src \in Record, o.class = "connect"
  PROVE  LET c == CopyStruct(o, src)
         IN  /\ c \in Record /\ c.class = "connect"
             /\ c.cWill = src.cWill /\ c.cWillProps = src.cWillProps
             /\ c.cSsl = src.cSsl
<1> DEFINE c == CopyStruct(o, src)
<1>1. Keeps(o, c)
  BY CopyStructKeeps
<1>2. c.cWill = src.cWill /\ c.cWillProps = src.cWillProps /\ c.cSsl = src.cSsl
  BY DEF CopyStruct, Record
<1> HIDE DEF c
<1> QED
  BY <1>1, <1>2 DEF c, Keeps

\* Whatever it was before and whatever was made of the source.
LEMMA CredentialsSet ==
  ASSUME NEW i \in Object, NEW o \in Record, NEW u \in Ref, NEW p \in Ref,
         o.class = "connect", WillOwn(i, o), SslOwn(i, o),
         WillLeads(o), SslLeads(i, o)
  PROVE  LET n == SetPassword(SetUserName(o, u), p)
         IN  n \in Record /\ Placed(i, n) /\ Leads(i, n)
<1> DEFINE n == SetPassword(SetUserName(o, u), p)
<1>1. Keeps(o, n)
  BY CredentialsKeep
<1>2. WillOwn(i, n) /\ SslOwn(i, n) /\ CredentialsOwn(n) /\ StringsOwn(i, n)
  BY DEF SetPassword, SetUserName, Record, WillOwn, SslOwn, CredentialsOwn,
         StringsOwn
<1>3. WillLeads(n) /\ SslLeads(i, n) /\ CredentialsLead(n)
  BY DEF SetPassword, SetUserName, Record, WillLeads, SslLeads, CredentialsLead
<1> HIDE DEF n
<1> QED
  BY <1>1, <1>2, <1>3 DEF n, Keeps, Placed, Leads

\* A connect_options object that is copied or assigned to has its own will and
\* ssl options, or none, although the struct it starts from is the source's and
\* the source may have been moved from.
LEMMA ConnectFromOwn ==
  ASSUME NEW i \in Object, NEW j \in Object, NEW o \in Record,
         NEW src \in Record, Own(j, src), o.class = "connect"
  PROVE  Own(i, Derived(ConnectFrom(i, o, src)))
<1> DEFINE c == CopyStruct(o, src)
           w == IF src.cWill = Null THEN c ELSE SetWill(i, c, src)
           s == IF src.cSsl = Null THEN w ELSE SetSsl(i, w, src)
           n == SetPassword(SetUserName(s, src.userName), src.password)
<1>1. /\ c \in Record /\ c.class = "connect"
      /\ c.cWill = src.cWill /\ c.cWillProps = src.cWillProps
      /\ c.cSsl = src.cSsl
  BY CopyStructGives
<1> HIDE DEF c
<1>2. w \in Record /\ w.class = "connect"
  BY <1>1, SetWillKeeps DEF Keeps
<1>3. WillOwn(i, w) /\ WillLeads(w) /\ w.cSsl = src.cSsl
  BY <1>1, EmptyIsNotNull
     DEF SetWill, WillFrom, WillSetTopic, WillSetPayload, Record,
         Own, Placed, WillOwn, WillLeads
<1> HIDE DEF w
<1>4. s \in Record /\ s.class = "connect"
  BY <1>2, SetSslKeeps DEF Keeps
<1>5. WillOwn(i, s) /\ WillLeads(s)
  BY <1>2, <1>3 DEF SetSsl, SslFrom, SslUpdate, Record, WillOwn, WillLeads
<1>6. SslOwn(i, s) /\ SslLeads(i, s)
  BY <1>2, <1>3 DEF SetSsl, SslFrom, SslUpdate, Record, SslOwn, SslLeads
<1> HIDE DEF s
<1>7. n \in Record /\ Placed(i, n) /\ Leads(i, n)
  BY <1>4, <1>5, <1>6, MembersTyped, CredentialsSet
<1> HIDE DEF n
<1>8. Own(i, Derived(n))
  BY <1>7, DerivedOwn
<1> QED
  BY <1>8 DEF n, s, w, c, ConnectFrom

\* The move constructor moves will and ssl options in any case, and points to
\* them if the source did.
LEMMA ConnectMovedOwn ==
  ASSUME NEW i \in Object, NEW j \in Object, NEW src \in Record, Own(j, src)
  PROVE  Own(i, Derived(ConnectMoved(i, src)))
<1> DEFINE c == CopyStruct(Blank("connect"), src)
           f == WillFrom(c, src)
           m == SslFrom(i, f, src)
           v == [m EXCEPT !.cWill = i]
           w == IF src.cWill = Null THEN m ELSE [v EXCEPT !.cWillProps = i]
           s == IF src.cSsl = Null THEN w ELSE [w EXCEPT !.cSsl = i]
           n == SetPassword(SetUserName(s, src.userName), src.password)
           Topics(x) == /\ x.cTopic = x.topic /\ x.topic # Null
                        /\ x.cPayload = x.payload /\ x.payload # Null
           Strings(x) == \A t \in SslString : x.cStr[t] = At(i, x.str[t])
<1>1. /\ c \in Record /\ c.class = "connect"
      /\ c.cWill = src.cWill /\ c.cWillProps = src.cWillProps
      /\ c.cSsl = src.cSsl
  BY BlankTyped, CopyStructGives DEF Class
<1> HIDE DEF c
<1>2. f \in Record /\ f.class = "connect"
  BY <1>1, MembersTyped, WillFromKeeps DEF Keeps
<1>3. /\ Topics(f) /\ f.cWill = src.cWill /\ f.cWillProps = src.cWillProps
      /\ f.cSsl = src.cSsl
  BY <1>1, EmptyIsNotNull DEF WillFrom, WillSetTopic, WillSetPayload, Record
<1> HIDE DEF f
<1>4. m \in Record /\ m.class = "connect"
  BY <1>2, SslFromKeeps DEF Keeps
<1>5. /\ Topics(m) /\ Strings(m)
      /\ m.cWill = src.cWill /\ m.cWillProps = src.cWillProps
      /\ m.cSsl = src.cSsl
  BY <1>2, <1>3 DEF SslFrom, SslUpdate, Record
<1> HIDE DEF m
<1>6. v \in Record /\ v.class = "connect"
  BY <1>4, ObjectKeeps DEF Keeps
<1>7. /\ Topics(v) /\ Strings(v) /\ v.cWill = i /\ v.cSsl = src.cSsl
  BY <1>4, <1>5 DEF Record
<1> HIDE DEF v
<1>8. w \in Record /\ w.class = "connect"
  BY <1>4, <1>6, ObjectKeeps DEF Keeps
<1>9. /\ WillOwn(i, w) /\ WillLeads(w) /\ Strings(w) /\ w.cSsl = src.cSsl
  <2>1. CASE src.cWill = Null
    BY <1>4, <1>5, <2>1 DEF Own, Placed, WillOwn, WillLeads
  <2>2. CASE src.cWill # Null
    BY <1>6, <1>7, <2>2 DEF Record, WillOwn, WillLeads
  <2> QED
    BY <2>1, <2>2
<1> HIDE DEF w
<1>10. s \in Record /\ s.class = "connect"
  BY <1>8, ObjectKeeps DEF Keeps
<1>11. WillOwn(i, s) /\ WillLeads(s)
  BY <1>8, <1>9 DEF Record, WillOwn, WillLeads
<1>12. SslOwn(i, s) /\ SslLeads(i, s)
  BY <1>8, <1>9 DEF Record, SslOwn, SslLeads
<1> HIDE DEF s
<1>13. n \in Record /\ Placed(i, n) /\ Leads(i, n)
  BY <1>10, <1>11, <1>12, MembersTyped, CredentialsSet
<1> HIDE DEF n
<1>14. Own(i, Derived(n))
  BY <1>13, DerivedOwn
<1>15. ConnectMoved(i, src) = n
  BY <1>4 DEF ConnectMoved, n, s, w, v, m, f, c
<1> QED
  BY <1>14, <1>15

\* The copy of an object of any class, into one of its class.
LEMMA CopyOwn ==
  ASSUME NEW i \in Object, NEW j \in Object, NEW o \in Record,
         NEW src \in Record, Own(i, o), Own(j, src), o.class \in Class,
         NEW b \in Block \cup {Null}
  PROVE  Own(i, Derived(CopyOf(i, o, src, b)))
<1> DEFINE n == CopyOf(i, o, src, b)
<1>0. n \in Record /\ n.class = o.class
  <2>1. CASE o.class \notin {"list", "property"}
    BY <2>1, CopyKeeps DEF Keeps, Class
  <2>2. CASE o.class = "list"
    <3> DEFINE c == CopyIn(src.props, b)
    <3>1. c \in Block \cup {Null}
      BY DEF CopyIn
    <3>2. n = [o EXCEPT !.props = c]
      BY <2>2 DEF CopyOf
    <3> HIDE DEF n, c
    <3> QED
      BY <3>1, <3>2, BlockTyped
  <2>3. CASE o.class = "property"
    <3> DEFINE c == CopyIn(src.value, b)
    <3>1. c \in Block \cup {Null}
      BY DEF CopyIn
    <3>2. n = [o EXCEPT !.value = c]
      BY <2>3 DEF CopyOf
    <3> HIDE DEF n, c
    <3> QED
      BY <3>1, <3>2, BlockTyped
  <2> QED
    BY <2>1, <2>2, <2>3
<1>1. CASE o.class = "will"
  <2>1. Placed(i, n)
    BY <1>1 DEF CopyOf, WillFrom, WillSetTopic, WillSetPayload, Record, Own, Placed, WillOwn, SslOwn,
                CredentialsOwn, StringsOwn
  <2>2. n.cTopic = n.topic /\ n.cPayload = n.payload
    BY <1>1 DEF CopyOf, WillFrom, WillSetTopic, WillSetPayload, Record
  <2> HIDE DEF n
  <2>3. Leads(i, n)
    BY <1>0, <1>1, <2>1, <2>2, PlacedLeads
  <2> QED
    BY <1>0, <2>1, <2>3, DerivedOwn DEF n
<1>2. CASE o.class = "ssl"
  <2>1. Placed(i, n)
    BY <1>2 DEF CopyOf, SslFrom, SslUpdate, Record, Own, Placed, WillOwn, SslOwn,
                CredentialsOwn, StringsOwn
  <2>2. \A s \in SslString : n.cStr[s] = At(i, n.str[s])
    BY <1>2 DEF CopyOf, SslFrom, SslUpdate, Record
  <2> HIDE DEF n
  <2>3. Leads(i, n)
    BY <1>0, <1>2, <2>1, <2>2, PlacedLeads
  <2> QED
    BY <1>0, <2>1, <2>3, DerivedOwn DEF n
<1>3. CASE o.class = "connect"
  <2>1. n = ConnectFrom(i, o, src)
    BY <1>3 DEF CopyOf
  <2> QED
    BY <1>3, <2>1, ConnectFromOwn
<1>4. CASE o.class = "message"
  <2>1. Placed(i, n)
    BY <1>4 DEF CopyOf, MessageFrom, MessageSetPayload, Record, Own, Placed, WillOwn, SslOwn,
                CredentialsOwn, StringsOwn
  <2> HIDE DEF n
  <2>2. Leads(i, n)
    BY <1>0, <1>4, <2>1, PlacedLeads
  <2> QED
    BY <1>0, <2>1, <2>2, DerivedOwn DEF n
<1>5. CASE o.class = "disconnect"
  <2>1. Placed(i, n)
    BY <1>5 DEF CopyOf, DisconnectFrom, Record, Own, Placed, WillOwn, SslOwn,
                CredentialsOwn, StringsOwn
  <2> HIDE DEF n
  <2>2. Leads(i, n)
    BY <1>0, <1>5, <2>1, PlacedLeads
  <2> QED
    BY <1>0, <2>1, <2>2, DerivedOwn DEF n
<1>6. CASE o.class = "response"
  <2>1. Placed(i, n)
    BY <1>6 DEF CopyOf, ResponseFrom, SetContext, Record, Own, Placed, WillOwn, SslOwn,
                CredentialsOwn, StringsOwn
  <2> HIDE DEF n
  <2>2. Leads(i, n)
    BY <1>0, <1>6, <2>1, PlacedLeads
  <2> QED
    BY <1>0, <2>1, <2>2, DerivedOwn DEF n
<1>7. CASE o.class = "list"
  <2>1. Placed(i, n)
    BY <1>7 DEF CopyOf, Record, Own, Placed, WillOwn, SslOwn,
                CredentialsOwn, StringsOwn
  <2> HIDE DEF n
  <2>2. Leads(i, n)
    BY <1>0, <1>7, <2>1, PlacedLeads
  <2> QED
    BY <1>0, <2>1, <2>2, DerivedOwn DEF n
<1>8. CASE o.class = "property"
  <2>1. Placed(i, n)
    BY <1>8 DEF CopyOf, Record, Own, Placed, WillOwn, SslOwn,
                CredentialsOwn, StringsOwn
  <2> HIDE DEF n
  <2>2. Leads(i, n)
    BY <1>0, <1>8, <2>1, PlacedLeads
  <2> QED
    BY <1>0, <2>1, <2>2, DerivedOwn DEF n
<1>9. CASE o.class = "strings"
  <2>1. Placed(i, n)
    BY <1>9 DEF CopyOf, UpdateCArr, Record, Own, Placed, WillOwn, SslOwn,
                CredentialsOwn, StringsOwn
  <2> HIDE DEF n
  <2>2. Leads(i, n)
    BY <1>0, <1>9, <2>1, PlacedLeads
  <2> QED
    BY <1>0, <2>1, <2>2, DerivedOwn DEF n
<1> QED
  BY <1>1, <1>2, <1>3, <1>4, <1>5, <1>6, <1>7, <1>8, <1>9 DEF Class


\* The same for a move, which takes blocks and the array of a response over.
LEMMA MoveOwn ==
  ASSUME NEW i \in Object, NEW j \in Object, NEW o \in Record,
         NEW src \in Record, Own(i, o), Own(j, src), o.class \in Class
  PROVE  Own(i, Derived(MoveOf(i, o, src)))
<1> DEFINE n == MoveOf(i, o, src)
<1>0. n \in Record /\ n.class = o.class
  <2>1. CASE o.class \notin {"list", "property"}
    BY <2>1, MoveKeeps DEF Keeps, Class
  <2>2. CASE o.class = "list"
    <3> DEFINE b == src.props
    <3>1. b \in Block \cup {Null}
      BY MembersTyped
    <3>2. n = [o EXCEPT !.props = b]
      BY <2>2 DEF MoveOf
    <3> HIDE DEF n, b
    <3> QED
      BY <3>1, <3>2, BlockTyped
  <2>3. CASE o.class = "property"
    <3> DEFINE b == src.value
    <3>1. b \in Block \cup {Null}
      BY MembersTyped
    <3>2. n = [o EXCEPT !.value = b]
      BY <2>3 DEF MoveOf
    <3> HIDE DEF n, b
    <3> QED
      BY <3>1, <3>2, BlockTyped
  <2> QED
    BY <2>1, <2>2, <2>3
<1>1. CASE o.class = "list"
  <2>1. Placed(i, n)
    BY <1>1 DEF MoveOf, Record, Own, Placed, WillOwn, SslOwn,
                CredentialsOwn, StringsOwn
  <2> HIDE DEF n
  <2>2. Leads(i, n)
    BY <1>0, <1>1, <2>1, PlacedLeads
  <2> QED
    BY <1>0, <2>1, <2>2, DerivedOwn DEF n
<1>2. CASE o.class = "property"
  <2>1. Placed(i, n)
    BY <1>2 DEF MoveOf, Record, Own, Placed, WillOwn, SslOwn,
                CredentialsOwn, StringsOwn
  <2> HIDE DEF n
  <2>2. Leads(i, n)
    BY <1>0, <1>2, <2>1, PlacedLeads
  <2> QED
    BY <1>0, <2>1, <2>2, DerivedOwn DEF n
<1>3. CASE o.class = "response"
  <2>1. Placed(i, n)
    BY <1>3 DEF MoveOf, ResponseMoved, ResponseFrom, SetContext, Record, Own, Placed, WillOwn, SslOwn,
                CredentialsOwn, StringsOwn
  <2> HIDE DEF n
  <2>2. Leads(i, n)
    BY <1>0, <1>3, <2>1, PlacedLeads
  <2> QED
    BY <1>0, <2>1, <2>2, DerivedOwn DEF n
<1>4. CASE o.class \notin {"list", "property", "response"}
  <2>1. n = CopyOf(i, o, src, Null)
    BY <1>4 DEF MoveOf
  <2> HIDE DEF n
  <2>2. Own(i, Derived(CopyOf(i, o, src, Null)))
    BY CopyOwn
  <2> QED
    BY <2>1, <2>2 DEF n
<1> QED
  BY <1>1, <1>2, <1>3, <1>4

\* The source of a move keeps what does not depend on being moved from.
LEMMA NoCredentialsOwn ==
  ASSUME NEW i \in Object, NEW o \in Record, Own(i, o), o.class = "connect"
  PROVE  Own(i, NoCredentials(o))
<1> DEFINE n == NoCredentials(o)
<1>1. Placed(i, n)
  BY DEF NoCredentials, Record, Own, Placed, WillOwn, SslOwn, CredentialsOwn,
         StringsOwn
<1>2. n.moved
  BY DEF NoCredentials, Record
<1> QED
  BY <1>1, <1>2 DEF Own, Whole

LEMMA RemainsOwn ==
  ASSUME NEW i \in Object, NEW o \in Record, Own(i, o), o.class \in Class
  PROVE  Own(i, Remains(o))
<1>0. Null = At(i, Null) /\ Null = CStr(Null)
  BY EmptyIsNotNull DEF At, CStr
<1>1. CASE o.class = "will"
  BY <1>0, <1>1 DEF Remains, Record, Own, Placed, WillOwn, SslOwn,
              CredentialsOwn, StringsOwn, Whole
<1>2. CASE o.class = "ssl"
  BY <1>0, <1>2 DEF Remains, Record, Own, Placed, WillOwn, SslOwn,
              CredentialsOwn, StringsOwn, Whole
<1>3. CASE o.class = "connect"
  BY <1>0, <1>3 DEF Remains, NoCredentials, Record, Own, Placed, WillOwn, SslOwn,
              CredentialsOwn, StringsOwn, Whole
<1>4. CASE o.class = "message"
  BY <1>0, <1>4 DEF Remains, Record, Own, Placed, WillOwn, SslOwn,
              CredentialsOwn, StringsOwn, Whole
<1>5. CASE o.class = "disconnect"
  BY <1>0, <1>5 DEF Remains, Record, Own, Placed, WillOwn, SslOwn,
              CredentialsOwn, StringsOwn, Whole
<1>6. CASE o.class = "response"
  BY <1>0, <1>6 DEF Remains, Record, Own, Placed, WillOwn, SslOwn,
              CredentialsOwn, StringsOwn, Whole
<1>7. CASE o.class = "list"
  BY <1>0, <1>7 DEF Remains, Record, Own, Placed, WillOwn, SslOwn,
              CredentialsOwn, StringsOwn, Whole
<1>8. CASE o.class = "property"
  BY <1>0, <1>8 DEF Remains, Record, Own, Placed, WillOwn, SslOwn,
              CredentialsOwn, StringsOwn, Whole
<1>9. CASE o.class = "strings"
  BY <1>0, <1>9 DEF Remains, Record, Own, Placed, WillOwn, SslOwn,
              CredentialsOwn, StringsOwn, Whole
<1> QED
  BY <1>1, <1>2, <1>3, <1>4, <1>5, <1>6, <1>7, <1>8, <1>9 DEF Class

-----------------------------------------------------------------------------
(* Steps                                                                   *)

LEMMA PutOwn ==
  ASSUME OwnInv, PointersInv, NEW i \in Object, NEW n, Own(i, n),
         NEW freed, NEW taken, Put(i, n, freed, taken)
  PROVE  PointersInv'
  BY DEF OwnInv, TypeOK, PointersInv, Put

LEMMA ChangeOwn ==
  ASSUME OwnInv, PointersInv, NEW i \in Object, NEW n, Own(i, n), Change(i, n)
  PROVE  PointersInv'
  BY PutOwn DEF Change

LEMMA ObjectsOwn ==
  ASSUME OwnInv, PointersInv, NEW i \in Object
  PROVE  obj[i] \in Record /\ Own(i, obj[i])
  BY DEF OwnInv, TypeOK, PointersInv

LEMMA WillStepOwn ==
  ASSUME OwnInv, PointersInv, NEW i \in Object, NEW r \in Ref,
         CreateWill(i) \/ SetWillTopic(i, r) \/ SetWillPayload(i, r)
  PROVE  PointersInv'
<1>0. obj[i] \in Record /\ Own(i, obj[i])
  BY ObjectsOwn
<1>1. CASE CreateWill(i)
  <2> DEFINE New(src) == WillFrom(Blank("will"), src)
             ref(x) == IF x = Null THEN Empty ELSE x
  <2>1. /\ Blank("will") \in Record /\ Blank("will").class = "will"
        /\ Own(i, Blank("will"))
    BY BlankTyped, BlankOwn DEF Class
  <2>2. ASSUME NEW t \in Ref, NEW p \in Ref
        PROVE  Own(i, New([topic |-> t, payload |-> p]))
    <3> DEFINE src == [topic |-> t, payload |-> p]
    <3>1. src.topic \in Ref /\ src.payload \in Ref
      OBVIOUS
    <3> HIDE DEF src
    <3>2. Own(i, WillFrom(Blank("will"), src))
      BY <2>1, <3>1, WillFromOwn
    <3> QED
      BY <3>2 DEF src
  <2>3. CASE Change(i, DefaultWill("will"))
    <3>1. Own(i, DefaultWill("will"))
      BY <2>1, WillSetTopicOwn DEF DefaultWill
    <3> QED
      BY <2>3, <3>1, ChangeOwn
  <2>4. CASE \E t, p \in Ref : Change(i, New([topic |-> t, payload |-> p]))
    BY <2>2, <2>4, ChangeOwn
  <2>5. CASE \E m \in Object : /\ Is(m, "message")
                               /\ Change(i, New([topic   |-> ref(obj[m].topic),
                                                 payload |-> ref(obj[m].payload)]))
    <3>1. PICK m \in Object : Change(i, New([topic   |-> ref(obj[m].topic),
                                             payload |-> ref(obj[m].payload)]))
      BY <2>5
    <3>2. ref(obj[m].topic) \in Ref /\ ref(obj[m].payload) \in Ref
      BY ObjectsOwn, MembersTyped DEF Ref
    <3> HIDE DEF ref, New
    <3> QED
      BY <2>2, <3>1, <3>2, ChangeOwn
  <2> QED
    BY <1>1, <2>3, <2>4, <2>5 DEF CreateWill
<1>2. CASE SetWillTopic(i, r)
  BY <1>0, <1>2, WillSetTopicOwn, ChangeOwn DEF SetWillTopic, Is
<1>3. CASE SetWillPayload(i, r)
  BY <1>0, <1>3, WillSetPayloadOwn, ChangeOwn DEF SetWillPayload, Is
<1> QED
  BY <1>1, <1>2, <1>3

LEMMA SslStepOwn ==
  ASSUME OwnInv, PointersInv, NEW i \in Object, NEW t \in Text \cup {Null},
         \/ CreateSsl(i) \/ SetCaPath(i, t)
         \/ \E s \in SslString : SetSslString(i, s, t)
  PROVE  PointersInv'
<1>0. obj[i] \in Record /\ Own(i, obj[i])
  BY ObjectsOwn
<1>1. CASE CreateSsl(i)
  <2>1. PICK str \in [SslString -> Text \cup {Null}] : Change(i, NewSsl(i, str))
    BY <1>1 DEF CreateSsl
  <2> DEFINE b == Blank("ssl")
             n == NewSsl(i, str)
  <2>2. b \in Record /\ b.class = "ssl" /\ Own(i, b)
    BY BlankTyped, BlankOwn DEF Class
  <2> HIDE DEF b
  <2>3. n = SslUpdate(i, [b EXCEPT !.str = str])
    BY DEF NewSsl, b
  <2> HIDE DEF n
  <2>4. Placed(i, n)
    BY <2>2, <2>3 DEF SslUpdate, Record, Own, Placed, WillOwn, SslOwn,
                      CredentialsOwn, StringsOwn
  <2>5. n.class = "ssl" /\ \A x \in SslString : n.cStr[x] = At(i, n.str[x])
    BY <2>2, <2>3 DEF SslUpdate, Record
  <2>6. Whole(i, n)
    BY <2>2, <2>3 DEF SslUpdate, Record, Own, Whole
  <2>7. Own(i, n)
    BY <2>4, <2>5, <2>6, PlacedLeads DEF Own
  <2> QED
    BY <2>1, <2>7, ChangeOwn DEF n
<1>2. CASE \E s \in SslString : SetSslString(i, s, t)
  BY <1>0, <1>2, WithStringOwn, ChangeOwn DEF SetSslString, Is
<1>3. CASE SetCaPath(i, t)
  BY <1>0, <1>3, CaPathOwn, ChangeOwn DEF SetCaPath
<1> QED
  BY <1>1, <1>2, <1>3


LEMMA ConnectStepOwn ==
  ASSUME OwnInv, PointersInv, NEW i \in Object, NEW j \in Object \cup {Null},
         NEW r \in Ref,
         \/ CreateConnect(i) \/ SetCredentials(i, r) \/ SetServers(i, j)
         \/ j \in Object /\ (SetConnectWill(i, j) \/ SetConnectSsl(i, j))
  PROVE  PointersInv'
<1>0. obj[i] \in Record /\ Own(i, obj[i])
  BY ObjectsOwn
<1>1. CASE CreateConnect(i)
  <2> DEFINE d == DefaultWill("connect")
  <2>1. d \in Record /\ d.class = "connect" /\ Own(i, d)
    <3>1. Keeps(Blank("connect"), d) /\ Blank("connect").class = "connect"
      BY BlankTyped, WillSetTopicKeeps DEF DefaultWill, Class, Ref
    <3>2. Own(i, Default("connect"))
      BY DefaultOwn DEF Class
    <3> QED
      BY <3>1, <3>2 DEF Keeps, Default
  <2> HIDE DEF d
  <2>2. CASE Change(i, d)
    BY <2>1, <2>2, ChangeOwn
  <2>3. CASE \E u, p \in Ref : Change(i, SetPassword(SetUserName(d, u), p))
    <3>1. PICK u \in Ref, p \in Ref :
            Change(i, SetPassword(SetUserName(d, u), p))
      BY <2>3
    <3> DEFINE n == SetUserName(d, u)
    <3>2. n \in Record /\ n.class = "connect" /\ Own(i, n)
      BY <2>1, SetUserNameKeeps, SetUserNameOwn DEF Keeps
    <3> HIDE DEF n
    <3>3. Own(i, SetPassword(n, p))
      BY <3>2, SetPasswordOwn
    <3> QED
      BY <3>1, <3>3, ChangeOwn DEF n
  <2> QED
    BY <1>1, <2>2, <2>3 DEF CreateConnect, d
<1>2. CASE SetCredentials(i, r)
  BY <1>0, <1>2, SetUserNameOwn, SetPasswordOwn, ChangeOwn
     DEF SetCredentials, Is
<1>3. CASE SetServers(i, j)
  BY <1>0, <1>3, ServersOwn, ChangeOwn DEF SetServers
<1>4. CASE j \in Object /\ SetConnectWill(i, j)
  BY <1>0, <1>4, ObjectsOwn, SetWillOwn, ChangeOwn DEF SetConnectWill, Is
<1>5. CASE j \in Object /\ SetConnectSsl(i, j)
  BY <1>0, <1>5, ObjectsOwn, SetSslOwn, ChangeOwn DEF SetConnectSsl, Is
<1> QED
  BY <1>1, <1>2, <1>3, <1>4, <1>5

LEMMA MessageStepOwn ==
  ASSUME OwnInv, PointersInv, NEW i \in Object, NEW r \in Ref,
         \/ CreateMessage(i) \/ SetMessageTopic(i, r)
         \/ SetMessagePayload(i, r) \/ ClearPayload(i)
  PROVE  PointersInv'
<1>0. obj[i] \in Record /\ Own(i, obj[i])
  BY ObjectsOwn
<1>1. CASE CreateMessage(i)
  <2>1. PICK t \in Ref, p \in Ref, b \in Fresh \cup {Null} :
          Put(i, NewMessage(t, p, b), {}, {b})
    BY <1>1 DEF CreateMessage
  <2> DEFINE m == Blank("message")
             n == NewMessage(t, p, b)
  <2>2. m \in Record /\ m.class = "message" /\ Own(i, m)
    BY BlankTyped, BlankOwn DEF Class
  <2> HIDE DEF m
  <2>3. n = MessageSetPayload([m EXCEPT !.topic = t, !.props = b, !.cProps = b], p)
    BY DEF NewMessage, m
  <2> HIDE DEF n
  <2>4. Placed(i, n) /\ n.class = "message"
    BY <2>2, <2>3 DEF MessageSetPayload, Record, Own, Placed, WillOwn, SslOwn,
                      CredentialsOwn, StringsOwn
  <2>5. Whole(i, n)
    BY <2>2, <2>3 DEF MessageSetPayload, Record, Own, Whole
  <2>6. Own(i, n)
    BY <2>4, <2>5, PlacedLeads DEF Own
  <2> QED
    BY <2>1, <2>6, PutOwn DEF n
<1>2. CASE SetMessageTopic(i, r)
  BY <1>0, <1>2, MessageTopicOwn, ChangeOwn DEF SetMessageTopic, Is
<1>3. CASE SetMessagePayload(i, r) \/ ClearPayload(i)
  BY <1>0, <1>3, MessagePayloadOwn, ChangeOwn
     DEF SetMessagePayload, ClearPayload, Is
<1> QED
  BY <1>1, <1>2, <1>3

\* Disconnect and response options, tokens and contexts.
LEMMA TokenStepOwn ==
  ASSUME OwnInv, PointersInv, NEW i \in Object, NEW t \in Shared \cup {Null},
         \/ SetToken(i, t) \/ CreateDisconnect(i)
         \/ CreateResponse(i) \/ SetResponseToken(i, t)
  PROVE  PointersInv'
<1>0. obj[i] \in Record /\ Own(i, obj[i])
  BY ObjectsOwn
<1>1. CASE SetToken(i, t)
  BY <1>0, <1>1, TokenOwn, ChangeOwn DEF SetToken
<1>2. CASE CreateDisconnect(i)
  BY <1>2, BlankOwn, ChangeOwn DEF CreateDisconnect, Class
<1>3. CASE CreateResponse(i)
  <2>1. PICK c \in Shared \cup {Null} : Change(i, NewResponse(c))
    BY <1>3 DEF CreateResponse
  <2>2. Own(i, NewResponse(c))
    BY BlankTyped, BlankOwn, TokenOwn DEF NewResponse, SetContext, Class
  <2> QED
    BY <2>1, <2>2, ChangeOwn
<1>4. CASE SetResponseToken(i, t)
  BY <1>0, <1>4, TokenOwn, ChangeOwn DEF SetResponseToken, SetContext
<1> QED
  BY <1>1, <1>2, <1>3, <1>4

\* Texts, of a collection or of a response.
LEMMA TextStepOwn ==
  ASSUME OwnInv, PointersInv, NEW i \in Object, NEW t \in Text \cup {Null},
         CreateStrings(i) \/ ChangeStrings(i, t) \/ SetSubscribeOptions(i, t)
  PROVE  PointersInv'
<1>0. obj[i] \in Record /\ Own(i, obj[i])
  BY ObjectsOwn
<1>1. ASSUME NEW o \in Record, Own(i, o), NEW u
      PROVE  Own(i, UpdateCArr(i, [o EXCEPT !.coll = u]))
  <2> DEFINE c == [o EXCEPT !.coll = u]
  <2>1. c.coll = u
    BY DEF Record
  <2>2. Own(i, [c EXCEPT !.cArr = At(i, u)])
    BY <1>1, ArrayOwn
  <2> HIDE DEF c
  <2> QED
    BY <2>1, <2>2 DEF UpdateCArr, c
<1>2. CASE CreateStrings(i)
  <2>1. PICK u \in Text \cup {Null} : Change(i, NewStrings(i, u))
    BY <1>2 DEF CreateStrings
  <2>2. Own(i, NewStrings(i, u))
    BY <1>1, BlankTyped, BlankOwn DEF NewStrings, Class
  <2> QED
    BY <2>1, <2>2, ChangeOwn
<1>3. CASE ChangeStrings(i, t)
  BY <1>0, <1>1, <1>3, ChangeOwn DEF ChangeStrings
<1>4. CASE SetSubscribeOptions(i, t)
  BY <1>0, <1>4, ArrayOwn, ChangeOwn DEF SetSubscribeOptions
<1> QED
  BY <1>2, <1>3, <1>4

\* Lists and properties, and the lists that other objects are given.
LEMMA ListStepOwn ==
  ASSUME OwnInv, PointersInv, NEW i \in Object,
         \/ CreateList(i) \/ CreateProperty(i) \/ Add(i) \/ Clear(i)
         \/ \E j \in Object : SetProperties(i, j)
  PROVE  PointersInv'
<1>0. obj[i] \in Record /\ Own(i, obj[i])
  BY ObjectsOwn
<1>1. CASE CreateList(i)
  <2>1. PICK b \in Fresh \cup {Null} : Put(i, NewList(b), {}, {b})
    BY <1>1 DEF CreateList
  <2>2. Own(i, NewList(b))
    BY BlankTyped, BlankOwn, ArrayReplacedOwn DEF NewList, Class
  <2> QED
    BY <2>1, <2>2, PutOwn
<1>2. CASE CreateProperty(i)
  <2>1. PICK b \in Fresh \cup {Null} : Put(i, NewProperty(b), {}, {b})
    BY <1>2 DEF CreateProperty
  <2>2. Own(i, NewProperty(b))
    BY BlankTyped, BlankOwn, ValueOwn DEF NewProperty, Class
  <2> QED
    BY <2>1, <2>2, PutOwn
<1>3. CASE Add(i)
  <2>1. PICK b \in (Fresh \cup {obj[i].props}) \ {Null} :
          Put(i, [obj[i] EXCEPT !.props = b], {obj[i].props}, {b})
    BY <1>3 DEF Add
  <2>2. Own(i, [obj[i] EXCEPT !.props = b])
    BY <1>0, <1>3, ArrayReplacedOwn DEF Add, Is
  <2> QED
    BY <2>1, <2>2, PutOwn
<1>4. CASE Clear(i)
  <2>1. Own(i, [obj[i] EXCEPT !.props = Null])
    BY <1>0, <1>4, ArrayReplacedOwn DEF Clear, Is
  <2> QED
    BY <1>4, <2>1, PutOwn DEF Clear
<1>5. CASE \E j \in Object : SetProperties(i, j)
  <2>1. PICK j \in Object, b \in Fresh \cup Blocks(obj[i]) :
          LET c == CopyIn(obj[j].props, b)
          IN  Put(i, WithList(i, obj[i], c), Blocks(obj[i]), {c})
    BY <1>5 DEF SetProperties
  <2> DEFINE c == CopyIn(obj[j].props, b)
  <2>2. Own(i, WithList(i, obj[i], c))
    BY <1>0, WithListOwn
  <2> QED
    BY <2>1, <2>2, PutOwn
<1> QED
  BY <1>1, <1>2, <1>3, <1>4, <1>5

LEMMA CopyStepOwn ==
  ASSUME OwnInv, PointersInv, NEW i \in Object, NEW j \in Object,
         CopyConstruct(i, j) \/ CopyAssign(i, j)
  PROVE  PointersInv'
<1>0. /\ obj[i] \in Record /\ Own(i, obj[i])
      /\ obj[j] \in Record /\ Own(j, obj[j])
  BY ObjectsOwn
<1>1. Fresh \subseteq Block /\ Freed(obj[i]) \subseteq Block
  BY <1>0, MembersTyped DEF Fresh, Freed, Blocks
<1>2. CASE CopyConstruct(i, j)
  <2> DEFINE class == obj[j].class
             d == Default(class)
  <2>1. class \in Class
    BY <1>0, <1>2, MembersTyped DEF CopyConstruct, Is
  <2>2. PICK b \in Fresh \cup {Null} :
          LET c == Derived(CopyOf(i, d, obj[j], b))
          IN  Put(i, c, {}, Blocks(c))
    BY <1>2 DEF CopyConstruct
  <2> HIDE DEF class
  <2>3. d \in Record /\ d.class = class /\ Own(i, d)
    BY <2>1, BlankTyped, DefaultTyped, DefaultOwn DEF Keeps
  <2> HIDE DEF d
  <2>4. Own(i, Derived(CopyOf(i, d, obj[j], b)))
    BY <1>0, <1>1, <2>1, <2>3, CopyOwn
  <2> QED
    BY <2>2, <2>4, PutOwn
<1>3. CASE CopyAssign(i, j)
  <2>1. obj[i].class \in Class
    BY <1>0, <1>3, MembersTyped DEF CopyAssign, Is
  <2>2. PICK b \in Fresh \cup Freed(obj[i]) :
          LET c == Derived(CopyOf(i, obj[i], obj[j], b))
          IN  Put(i, c, Freed(obj[i]), Blocks(c))
    BY <1>3 DEF CopyAssign
  <2>3. Own(i, Derived(CopyOf(i, obj[i], obj[j], b)))
    BY <1>0, <1>1, <2>1, CopyOwn
  <2> QED
    BY <2>2, <2>3, PutOwn
<1> QED
  BY <1>2, <1>3

\* A move changes its source as well.
LEMMA MoveStepOwn ==
  ASSUME OwnInv, PointersInv, NEW i \in Object, NEW j \in Object,
         MoveConstruct(i, j) \/ MoveAssign(i, j)
  PROVE  PointersInv'
<1>0. /\ obj[i] \in Record /\ Own(i, obj[i])
      /\ obj[j] \in Record /\ Own(j, obj[j])
  BY ObjectsOwn
<1>1. ASSUME NEW a, NEW b, i # j, Own(i, a), Own(j, b),
             obj' = [obj EXCEPT ![i] = a, ![j] = b]
      PROVE  PointersInv'
  BY <1>1 DEF OwnInv, TypeOK, PointersInv
<1>2. CASE MoveConstruct(i, j)
  <2> DEFINE class == obj[j].class
             d == Default(class)
             a == Derived(IF Is(j, "connect") THEN ConnectMoved(i, obj[j])
                          ELSE MoveOf(i, d, obj[j]))
  <2>1. class \in Class /\ i # j
    BY <1>0, <1>2, MembersTyped DEF MoveConstruct, Is, Free, Class
  <2>2. obj' = [obj EXCEPT ![i] = a, ![j] = Remains(obj[j])]
    BY <1>2, <2>1 DEF MoveConstruct
  <2>3. Own(j, Remains(obj[j]))
    BY <1>0, <2>1, RemainsOwn
  <2>4. Own(i, a)
    <3>1. CASE Is(j, "connect")
      <4>1. Own(i, Derived(ConnectMoved(i, obj[j])))
        BY <1>0, ConnectMovedOwn
      <4> QED
        BY <3>1, <4>1
    <3>2. CASE ~Is(j, "connect")
      <4>1. d \in Record /\ d.class \in Class /\ Own(i, d)
        <5> HIDE DEF class
        <5> QED
          BY <2>1, BlankTyped, DefaultTyped, DefaultOwn DEF Keeps
      <4> HIDE DEF d
      <4>2. Own(i, Derived(MoveOf(i, d, obj[j])))
        BY <1>0, <4>1, MoveOwn
      <4> QED
        BY <3>2, <4>2
    <3> QED
      BY <3>1, <3>2
  <2> HIDE DEF a
  <2> QED
    BY <1>1, <2>1, <2>2, <2>3, <2>4
<1>3. CASE MoveAssign(i, j)
  <2> DEFINE a == Derived(MoveOf(i, obj[i], obj[j]))
             b == IF obj[j].class = "connect" THEN NoCredentials(obj[j])
                                              ELSE Remains(obj[j])
  <2>1. /\ i # j /\ obj[i].class \in Class /\ obj[j].class \in Class
    BY <1>0, <1>3, MembersTyped DEF MoveAssign, Is
  <2>2. obj' = [obj EXCEPT ![i] = a, ![j] = b]
    BY <1>3, <2>1 DEF MoveAssign
  <2>3. Own(i, a)
    BY <1>0, <2>1, MoveOwn
  <2>4. Own(j, b)
    BY <1>0, <2>1, NoCredentialsOwn, RemainsOwn
  <2> HIDE DEF a, b
  <2> QED
    BY <1>1, <2>1, <2>2, <2>3, <2>4
<1> QED
  BY <1>2, <1>3

LEMMA StepKeepsPointers ==
  ASSUME OwnInv, PointersInv, [Next]_vars
  PROVE  PointersInv'
<1>0. Null \in Ref /\ Null \in Shared \cup {Null} /\ Null \in Text \cup {Null}
  BY DEF Ref
<1>1. CASE UNCHANGED vars
  BY <1>1 DEF PointersInv, vars
<1>2. ASSUME NEW i \in Object,
             \/ CreateWill(i) \/ CreateSsl(i) \/ CreateConnect(i)
             \/ CreateMessage(i) \/ CreateDisconnect(i) \/ CreateResponse(i)
             \/ CreateList(i) \/ CreateProperty(i) \/ CreateStrings(i)
             \/ ClearPayload(i) \/ Add(i) \/ Clear(i)
             \/ SetServers(i, Null) \/ Destroy(i)
      PROVE  PointersInv'
  <2>1. CASE CreateWill(i) \/ CreateSsl(i) \/ CreateConnect(i)
    BY <1>0, <2>1, WillStepOwn, SslStepOwn, ConnectStepOwn
  <2>2. CASE CreateMessage(i) \/ CreateDisconnect(i) \/ CreateResponse(i)
    BY <1>0, <2>2, MessageStepOwn, TokenStepOwn
  <2>3. CASE \/ CreateList(i) \/ CreateProperty(i) \/ CreateStrings(i)
             \/ Add(i) \/ Clear(i)
    BY <1>0, <2>3, ListStepOwn, TextStepOwn
  <2>4. CASE ClearPayload(i) \/ SetServers(i, Null)
    BY <1>0, <2>4, MessageStepOwn, ConnectStepOwn
  <2>5. CASE Destroy(i)
    BY <2>5, BlankOwn, PutOwn DEF Destroy
  <2> QED
    BY <1>2, <2>1, <2>2, <2>3, <2>4, <2>5
<1>3. ASSUME NEW i \in Object, NEW r \in Ref,
             \/ SetWillTopic(i, r) \/ SetWillPayload(i, r)
             \/ SetMessageTopic(i, r) \/ SetMessagePayload(i, r)
             \/ SetCredentials(i, r)
      PROVE  PointersInv'
  BY <1>0, <1>3, WillStepOwn, MessageStepOwn, ConnectStepOwn
<1>4. ASSUME NEW i \in Object, NEW t \in Shared \cup {Null},
             SetToken(i, t) \/ SetResponseToken(i, t)
      PROVE  PointersInv'
  BY <1>4, TokenStepOwn
<1>5. ASSUME NEW i \in Object, NEW t \in Text \cup {Null},
             \/ SetCaPath(i, t)
             \/ ChangeStrings(i, t) \/ SetSubscribeOptions(i, t)
             \/ \E s \in SslString : SetSslString(i, s, t)
      PROVE  PointersInv'
  BY <1>5, SslStepOwn, TextStepOwn
<1>6. ASSUME NEW i \in Object, NEW j \in Object,
             \/ SetConnectWill(i, j) \/ SetConnectSsl(i, j) \/ SetServers(i, j)
             \/ SetProperties(i, j)
             \/ CopyConstruct(i, j) \/ MoveConstruct(i, j)
             \/ CopyAssign(i, j) \/ MoveAssign(i, j)
      PROVE  PointersInv'
  <2>1. CASE SetConnectWill(i, j) \/ SetConnectSsl(i, j) \/ SetServers(i, j)
    BY <1>0, <2>1, ConnectStepOwn
  <2>2. CASE SetProperties(i, j)
    BY <2>2, ListStepOwn
  <2> QED
    BY <1>6, <2>1, <2>2, CopyStepOwn, MoveStepOwn
<1> QED
  BY <1>1, <1>2, <1>3, <1>4, <1>5, <1>6 DEF Next

LEMMA PointersHold == Spec => [](OwnInv /\ PointersInv)
<1>1. Init => OwnInv /\ PointersInv
  BY InitOwns, BlankOwn DEF Init, PointersInv
<1>2. OwnInv /\ PointersInv /\ [Next]_vars => (OwnInv /\ PointersInv)'
  BY StepOwns, StepKeepsPointers
<1> QED
  BY <1>1, <1>2, PTL DEF Spec

-----------------------------------------------------------------------------
(* Theorems                                                                *)

\* The pointers that the constructors, assignments and setters see to lead to
\* members of the object itself: a copy of connect_options, of will_options or
\* ssl_options passes nothing of its source's to the C library, however often
\* the objects were copied and moved before.
THEOREM PointersOwn == Spec => []HandledPointersOwn
<1>1. PointersInv => HandledPointersOwn
  <2> SUFFICES ASSUME PointersInv, NEW i \in Object, Usable(obj[i])
               PROVE  /\ {obj[i].cWill, obj[i].cSsl, obj[i].cWillProps}
                           \subseteq {Null, i}
                      /\ obj[i].class = "will" \/ obj[i].cWill # Null =>
                           /\ obj[i].cTopic = obj[i].topic
                           /\ obj[i].cPayload = obj[i].payload
                      /\ obj[i].class = "ssl" \/ obj[i].cSsl # Null =>
                           \A s \in SslString :
                             obj[i].cStr[s] = At(i, obj[i].str[s])
                      /\ obj[i].cUserName = CStr(obj[i].userName)
                      /\ obj[i].cPassword = CStr(obj[i].password)
                      /\ obj[i].class = "message" =>
                           obj[i].cPayload = CStr(obj[i].payload)
                      /\ obj[i].class = "strings" =>
                           obj[i].cArr = At(i, obj[i].coll)
    BY DEF HandledPointersOwn
  <2> DEFINE o == obj[i]
  <2>1. Own(i, o)
    BY DEF PointersInv
  <2>2. Usable(o) /\ Placed(i, o)
    BY <2>1 DEF Own
  <2> HIDE DEF o
  <2>3. Leads(i, o)
    BY <2>1, <2>2, PlacedLeads DEF Own, Usable
  <2> QED
    BY <2>2, <2>3 DEF Placed, WillOwn, SslOwn, StringsOwn, Leads, WillLeads,
                      SslLeads, CredentialsLead, o
<1> QED
  BY <1>1, PointersHold, PTL

\* A will that the C library is given has a topic and a payload, if only empty
\* ones, although the will or message it was made from may have neither.
THEOREM WillsNeverNull == Spec => []WillNeverNull
<1>1. PointersInv => WillNeverNull
  BY DEF PointersInv, Own, Leads, WillLeads, WillNeverNull
<1> QED
  BY <1>1, PointersHold, PTL

\* The pointers that copies get wrong are right in objects that were made from
\* nothing: to the CA path, the lists of properties and of subscribe options, and
\* the token.
THEOREM UncopiedAreWhole == Spec => []UncopiedIsWhole
<1>1. PointersInv => UncopiedIsWhole
  BY DEF PointersInv, Own, Whole, UncopiedIsWhole
<1> QED
  BY <1>1, PointersHold, PTL

=============================================================================
