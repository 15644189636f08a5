------------------------- MODULE ImageUploadProofs -------------------------
(***************************************************************************)
(* Theorems of ImageUpload for every set of calls and names.               *)
(***************************************************************************)
EXTENDS ImageUpload, TLAPS

Step(c) == (\E in \in Input : Receive(c, in)) \/ Gateway(c) \/ Handler(c)

-----------------------------------------------------------------------------
(* Types. *)

\* A row, or the input of a call, is not the absence of one.
LEMMA RecordsExist ==
  /\ \A row \in Row : row # NoRow
  /\ \A in \in Input : in # NoInput
BY DEF Row, NoRow, Input, NoInput

\* At first there is no row and no call.
LEMMA ImageInit == Init => ImageIInv
<1> SUFFICES ASSUME Init PROVE ImageIInv
  OBVIOUS
<1>1. ImageTypeOK
  BY DEF Init, ImageTypeOK
<1>2. NamesUnique /\ ImageBelongs /\ AnswersTrue
  BY DEF Init, NamesUnique, ImageBelongs, AnswersTrue
<1>3. (\A c \in Call : CallOk(c) /\ RowOk(c)) /\ \A e \in entities : EntityOk(e)
  BY DEF Init, CallOk, RowOk
<1> QED BY <1>1, <1>2, <1>3 DEF ImageIInv

\* The input of a call under way is one.
LEMMA InputType ==
  ASSUME ImageIInv, NEW c \in Call, pc[c] # "idle"
  PROVE  /\ input[c] \in Input /\ input[c].target \in Call /\ input[c].table \in Table
         /\ input[c].name \in Name \cup {Null}
         /\ input[c].op = "create" => input[c].target = c /\ input[c].name # Null
BY DEF ImageIInv, ImageTypeOK, CallOk, Input

LEMMA ReplyType ==
  ASSUME ImageTypeOK, NEW c \in Call, NEW a \in {"success", "failure"}, Reply(c, a)
  PROVE  /\ pc' = [pc EXCEPT ![c] = "done"]
         /\ pc' \in [Call -> {"idle", "upload", "find", "check", "write", "reread", "done"}]
         /\ answer' \in [Call -> {"none", "success", "failure"}]
         /\ \A d \in Call \ {c} : answer'[d] = answer[d]
         /\ answer'[c] = IF c \in broken THEN answer[c] ELSE a
BY DEF Reply, Goto, ImageTypeOK

\* An update changes the name and the image of its row, and nothing else.
LEMMA UpdatedRow ==
  ASSUME ImageIInv, NEW c \in Call, Update(c), NEW r, r = input[c].target
  PROVE  /\ r \in Call /\ catalog[r] \in Row /\ catalog[r].table = input[c].table
         /\ catalog'[r] \in Row /\ catalog'[r].table = catalog[r].table
         /\ catalog'[r].name = IF input[c].name = Null THEN catalog[r].name ELSE input[c].name
         /\ catalog'[r].image = NewImage(c, catalog[r].image)
         /\ \A s \in Call \ {r} : catalog'[s] = catalog[s]
         /\ catalog' \in [Call -> Row \cup {NoRow}]
<1>1. ImageTypeOK /\ r \in Call /\ input[c].name \in Name \cup {Null}
  BY InputType DEF Update, ImageIInv
<1>2. catalog[r] \in Row /\ catalog[r].table = input[c].table
  BY <1>1 DEF Update, Exists, ImageTypeOK
<1>3. NewImage(c, catalog[r].image) \in Image
  <2>1. catalog[r].image \in Image /\ imageUrl[c] \in Image
    BY <1>1, <1>2 DEF ImageTypeOK, Row, Image
  <2>2. input[c].avatar # Absent => input[c].avatar \in Image
    BY InputType DEF Update, Input, Image
  <2> QED BY <2>1, <2>2 DEF NewImage
<1>4. catalog' = [catalog EXCEPT
           ![r].name  = IF input[c].name = Null THEN @ ELSE input[c].name,
           ![r].image = NewImage(c, @)]
  BY DEF Update
<1> DEFINE new == [[catalog[r] EXCEPT !.name = IF input[c].name = Null THEN @ ELSE input[c].name]
                     EXCEPT !.image = NewImage(c, @)]
<1>5. catalog' = [catalog EXCEPT ![r] = new]
  BY <1>1, <1>2, <1>4 DEF ImageTypeOK, Row
<1>6. /\ new \in Row /\ new.table = catalog[r].table
      /\ new.name = IF input[c].name = Null THEN catalog[r].name ELSE input[c].name
      /\ new.image = NewImage(c, catalog[r].image)
  BY <1>1, <1>2, <1>3 DEF Row
<1> HIDE DEF new
<1> QED BY <1>1, <1>2, <1>5, <1>6 DEF ImageTypeOK

\* Every step keeps the types.
LEMMA TypeStep ==
  ASSUME ImageIInv, NEW c \in Call, Step(c)
  PROVE  ImageTypeOK'
<1>0. ImageTypeOK
  BY DEF ImageIInv
<1>1. ASSUME NEW in \in Input, Receive(c, in) PROVE ImageTypeOK'
  BY <1>0, <1>1 DEF Receive, Goto, FirstStep, ImageTypeOK
<1>2. CASE Upload(c)
  BY <1>0, <1>2 DEF Upload, Goto, FirstStep, SetImageUrl, ImageTypeOK
<1>3. CASE Break(c)
  BY <1>0, <1>3 DEF Break, Goto, ImageTypeOK
<1>4. ASSUME Fail(c) PROVE ImageTypeOK'
  BY <1>0, <1>4, ReplyType DEF Fail, ImageTypeOK
<1>5. CASE Find(c) \/ Check(c)
  BY <1>0, <1>5 DEF Find, Check, Goto, ImageTypeOK
<1>6. CASE Insert(c)
  <2>1. input[c].table \in Table /\ input[c].name \in Name
    BY <1>6, InputType DEF Insert
  <2>2. [table |-> input[c].table, name |-> input[c].name, image |-> imageUrl[c]] \in Row
    BY <1>0, <2>1 DEF Row, Image, ImageTypeOK
  <2>3. catalog' \in [Call -> Row \cup {NoRow}] /\ wrote' \subseteq Call
    BY <1>0, <1>6, <2>2 DEF Insert, ImageTypeOK
  <2> QED BY <1>0, <1>6, <2>3, ReplyType DEF Insert, ImageTypeOK
<1>7. CASE Update(c)
  <2>1. catalog' \in [Call -> Row \cup {NoRow}]
    BY <1>7, UpdatedRow DEF Update
  <2>2. wrote' \subseteq Call
    BY <1>0, <1>7 DEF Update, ImageTypeOK
  <2> QED BY <1>0, <1>7, <2>1, <2>2 DEF Update, Goto, ImageTypeOK
<1>8. CASE UpdateNothing(c)
  BY <1>0, <1>8 DEF UpdateNothing, Goto, ImageTypeOK
<1>9. CASE Delete(c)
  <2>1. input[c].target \in Call
    BY <1>9, InputType DEF Delete
  <2>2. catalog' \in [Call -> Row \cup {NoRow}] /\ wrote' \subseteq Call /\ removed' \subseteq Call
    BY <1>0, <1>9, <2>1 DEF Delete, ImageTypeOK
  <2> QED BY <1>0, <1>9, <2>2, ReplyType DEF Delete, ImageTypeOK
<1>10. CASE Reread(c)
  BY <1>0, <1>10, ReplyType DEF Reread, ImageTypeOK
<1> QED BY <1>1, <1>2, <1>3, <1>4, <1>5, <1>6, <1>7, <1>8, <1>9, <1>10
    DEF Step, Gateway, Handler, UploadFails, FindFails, WriteFails, RereadFails

-----------------------------------------------------------------------------
(* What a step of one call leaves alone. *)

\* A step of one call touches nothing of another call but rows.
LEMMA OthersStay ==
  ASSUME ImageTypeOK, NEW c \in Call, Step(c)
  PROVE  /\ \A d \in Call \ {c} :
              /\ pc'[d] = pc[d] /\ input'[d] = input[d]
              /\ imageUrl'[d] = imageUrl[d] /\ answer'[d] = answer[d]
              /\ d \in uploaded' <=> d \in uploaded
              /\ d \in broken' <=> d \in broken
              /\ d \in wrote' <=> d \in wrote
         /\ entities' = entities
         /\ uploaded \subseteq uploaded' /\ wrote \subseteq wrote' /\ removed \subseteq removed'
BY DEF Step, Receive, Gateway, Handler, Upload, UploadFails, Break, Find, Check, FindFails, Insert,
   Update, UpdateNothing, Delete, WriteFails, Reread, RereadFails, Fail, Reply, Goto,
   SetImageUrl, ImageTypeOK

\* The input of a call under way never changes.
LEMMA InputStays ==
  ASSUME ImageTypeOK, NEW c \in Call, Step(c), pc[c] # "idle"
  PROVE  input' = input /\ pc'[c] # "idle"
BY DEF Step, Receive, Gateway, Handler, Upload, UploadFails, Break, Find, Check, FindFails, Insert,
   Update, UpdateNothing, Delete, WriteFails, Reread, RereadFails, Fail, Reply, Goto,
   FirstStep, ImageTypeOK

\* A row goes only by a deletion, which is remembered, and stays in its table.
LEMMA RowsStay ==
  ASSUME ImageIInv, NEW c \in Call, Step(c), NEW r \in Call, catalog[r] # NoRow
  PROVE  r \in removed' \/ (catalog'[r] # NoRow /\ catalog'[r].table = catalog[r].table)
<1>0. ImageTypeOK /\ RowOk(r) /\ CallOk(c)
  BY DEF ImageIInv
<1>1. CASE Insert(c)
  BY <1>0, <1>1 DEF Insert, CallOk, RowOk, ImageTypeOK
<1>2. CASE Update(c)
  BY <1>2, UpdatedRow, RecordsExist
<1>3. CASE Delete(c)
  BY <1>0, <1>3 DEF Delete, ImageTypeOK
<1>4. CASE catalog' = catalog
  BY <1>4
<1> QED BY <1>1, <1>2, <1>3, <1>4 DEF Step, Receive, Gateway, Handler, Upload, UploadFails, Break,
    Find, Check, FindFails, UpdateNothing, WriteFails, Reread, RereadFails, Fail

\* What a call found stays there or is remembered as deleted.
LEMMA TargetStays ==
  ASSUME ImageIInv, NEW c \in Call, Step(c), NEW d \in Call, pc[d] # "idle", TargetMet(d)
  PROVE  TargetMet(d)'
<1>1. input[d].target \in Call /\ input'[d] = input[d]
  BY InputType, OthersStay, InputStays DEF ImageIInv
<1>2. CASE input[d].target \in removed
  BY <1>1, <1>2, OthersStay DEF TargetMet, ImageIInv
<1>3. CASE Exists(d)
  BY <1>1, <1>3, RowsStay DEF Exists, TargetMet
<1> QED BY <1>2, <1>3 DEF TargetMet

LEMMA OtherCallStep ==
  ASSUME ImageIInv, NEW c \in Call, Step(c), NEW d \in Call, d # c
  PROVE  CallOk(d)'
<1>1. CallOk(d) /\ ImageTypeOK
  BY DEF ImageIInv
<1>2. pc[d] # "idle" /\ TargetMet(d) => TargetMet(d)'
  BY TargetStays
<1> QED BY <1>1, <1>2, OthersStay DEF CallOk

\* The input of a call that wrote never changes.
LEMMA WriterStays ==
  ASSUME ImageIInv, NEW c \in Call, Step(c), NEW w \in wrote
  PROVE  w \in Call /\ w \in wrote' /\ input'[w] = input[w]
<1>1. w \in Call /\ pc[w] # "idle"
  BY DEF ImageIInv, ImageTypeOK, CallOk
<1> QED BY <1>1, OthersStay, InputStays DEF ImageIInv

\* A row is there only after the call that names it inserted it, in its table.
LEMMA RowOkStep ==
  ASSUME ImageIInv, NEW c \in Call, Step(c), NEW r \in Call
  PROVE  RowOk(r)'
<1>0. ImageTypeOK /\ RowOk(r)
  BY DEF ImageIInv
<1>1. CASE Insert(c) /\ r = c
  BY <1>0, <1>1, InputType DEF Insert, RowOk, ImageTypeOK
<1>2. ASSUME \/ catalog'[r] = NoRow
             \/ /\ catalog[r] # NoRow /\ catalog'[r] # NoRow
                /\ catalog'[r].table = catalog[r].table
             \/ catalog'[r] = catalog[r]
      PROVE  RowOk(r)'
  BY <1>0, <1>2, WriterStays DEF RowOk
<1>3. CASE Insert(c) /\ r # c
  BY <1>0, <1>2, <1>3 DEF Insert, ImageTypeOK
<1>4. CASE Update(c)
  BY <1>2, <1>4, UpdatedRow, RecordsExist
<1>5. CASE Delete(c)
  BY <1>0, <1>2, <1>5 DEF Delete, ImageTypeOK
<1>6. CASE catalog' = catalog
  BY <1>2, <1>6
<1> QED BY <1>1, <1>3, <1>4, <1>5, <1>6 DEF Step, Receive, Gateway, Handler, Upload, UploadFails, Break,
    Find, Check, FindFails, UpdateNothing, WriteFails, Reread, RereadFails, Fail

-----------------------------------------------------------------------------
(* The call that takes the step. *)

\* A call that ends.
LEMMA EndedCall ==
  ASSUME ImageTypeOK, NEW c \in Call, CallOk(c), pc[c] # "idle", pc'[c] = "done",
         UNCHANGED <<input, imageUrl>>, uploaded \subseteq uploaded'
  PROVE  CallOk(c)'
BY DEF CallOk

LEMMA OwnCallStep ==
  ASSUME ImageIInv, NEW c \in Call, Step(c)
  PROVE  CallOk(c)'
<1>0. CallOk(c) /\ ImageTypeOK
  BY DEF ImageIInv
<1>1. ASSUME NEW in \in Input, Receive(c, in) PROVE CallOk(c)'
  <2>1. /\ input'[c] = in /\ in # NoInput
        /\ pc[c] = "idle" /\ pc'[c] = IF in.file THEN "upload" ELSE FirstStep(in)
        /\ UNCHANGED <<imageUrl, answer, catalog, uploaded, broken, wrote, removed>>
    BY <1>0, <1>1, RecordsExist DEF Receive, Goto, ImageTypeOK
  <2>2. in.op = "create" => in.target = c /\ in.name # Null
    BY <1>1 DEF Receive, Input
  <2>3. FirstStep(in) \in {"find", "write"}
        /\ (FirstStep(in) = "write" => in.op = "update" /\ in.table = "user")
    BY DEF FirstStep
  <2>4. imageUrl[c] = Null
    BY <1>0, <2>1 DEF CallOk
  <2> QED BY <1>0, <2>1, <2>2, <2>3, <2>4 DEF CallOk
<1>2. CASE Upload(c)
  <2>1. CASE c \in broken
    BY <1>0, <1>2, <2>1, EndedCall DEF Upload, Goto, ImageTypeOK
  <2>2. CASE c \notin broken
    <3>1. /\ pc'[c] = FirstStep(input[c]) /\ imageUrl'[c] = c /\ c \in uploaded' /\ pc[c] = "upload"
          /\ UNCHANGED <<input, answer, catalog, broken, wrote, removed>>
      BY <1>0, <1>2, <2>2 DEF Upload, Goto, SetImageUrl, ImageTypeOK
    <3>2. FirstStep(input[c]) \in {"find", "write"}
          /\ (FirstStep(input[c]) = "write" => input[c].op = "update" /\ input[c].table = "user")
      BY DEF FirstStep
    <3>3. input[c].file
      BY <1>0, <3>1 DEF CallOk
    <3> QED BY <1>0, <3>1, <3>2, <3>3 DEF CallOk
  <2> QED BY <2>1, <2>2
<1>3. CASE Break(c)
  BY <1>0, <1>3 DEF Break, Goto, CallOk, TargetMet, Exists, ImageTypeOK
<1>4. CASE Find(c)
  <2>1. /\ pc[c] = "find" /\ pc'[c] \in {"check", "write"}
        /\ (input[c].op # "create" => TargetMet(c))
        /\ (pc'[c] = "check" => input[c].op # "create")
        /\ UNCHANGED <<input, imageUrl, answer, catalog, uploaded, broken, wrote, removed>>
    BY <1>0, <1>4 DEF Find, Goto, Passes, Checks, TargetMet, ImageTypeOK
  <2> QED BY <1>0, <2>1 DEF CallOk, TargetMet, Exists
<1>9. CASE Check(c)
  <2>1. /\ pc[c] = "check" /\ pc'[c] = "write" /\ TargetMet(c)
        /\ UNCHANGED <<input, imageUrl, answer, catalog, uploaded, broken, wrote, removed>>
    BY <1>0, <1>9 DEF Check, Goto, CallOk, ImageTypeOK
  <2> QED BY <1>0, <2>1 DEF CallOk, TargetMet, Exists
<1>5. CASE Update(c)
  <2>1. /\ pc[c] = "write" /\ pc'[c] = "reread" /\ c \in wrote' /\ input[c].op = "update"
        /\ UNCHANGED <<input, imageUrl, answer, uploaded, broken, removed>>
    BY <1>0, <1>5 DEF Update, Goto, ImageTypeOK
  <2> QED BY <1>0, <2>1 DEF CallOk
<1>6. CASE UpdateNothing(c)
  <2>1. /\ pc[c] = "write" /\ pc'[c] = "reread" /\ input[c].op = "update"
        /\ input[c].target \in removed
        /\ UNCHANGED <<input, imageUrl, answer, catalog, uploaded, broken, wrote, removed>>
    BY <1>0, <1>6 DEF UpdateNothing, Goto, CallOk, TargetMet, ImageTypeOK
  <2> QED BY <1>0, <2>1 DEF CallOk
<1>7. CASE Fail(c) /\ pc[c] # "idle"
  BY <1>0, <1>7, ReplyType, EndedCall DEF Fail, ImageTypeOK
<1>8. CASE Insert(c) \/ Delete(c) \/ Reread(c)
  <2>1. pc[c] # "idle" /\ pc'[c] = "done" /\ UNCHANGED <<input, imageUrl, uploaded>>
    BY <1>0, <1>8, ReplyType DEF Insert, Delete, Reread, ImageTypeOK
  <2> QED BY <1>0, <2>1, EndedCall
<1> QED BY <1>1, <1>2, <1>3, <1>4, <1>5, <1>6, <1>7, <1>8, <1>9
    DEF Step, Gateway, Handler, UploadFails, FindFails, WriteFails, RereadFails

-----------------------------------------------------------------------------
(* The properties. *)

\* A name stays unique: whoever gives one to a row met the unique index.
LEMMA NamesStep ==
  ASSUME ImageIInv, NEW c \in Call, Step(c)
  PROVE  NamesUnique'
<1>0. ImageTypeOK /\ NamesUnique
  BY DEF ImageIInv
<1>1. ASSUME NEW r \in Call, NEW new \in Row, catalog'[r] = new,
             \A s \in Call \ {r} : catalog'[s] = catalog[s],
             \A s \in Call \ {r} : catalog[s] # NoRow /\ catalog[s].table = new.table
                                   => catalog[s].name # new.name
      PROVE  NamesUnique'
  BY <1>0, <1>1 DEF NamesUnique
<1>2. CASE Insert(c)
  <2> DEFINE new == [table |-> input[c].table, name |-> input[c].name, image |-> imageUrl[c]]
  <2>1. new \in Row /\ catalog'[c] = new /\ \A s \in Call \ {c} : catalog'[s] = catalog[s]
    BY <1>0, <1>2, InputType DEF Insert, ImageTypeOK, Row, Image
  <2>2. ~TakenBesides(c, {c}) /\ new.table = input[c].table /\ new.name = input[c].name
    BY <1>2 DEF Insert, Duplicate
  <2> HIDE DEF new
  <2> QED BY <1>1, <2>1, <2>2 DEF TakenBesides
<1>3. CASE Update(c)
  <2>1. PICK r : r = input[c].target
    OBVIOUS
  <2>2. /\ r \in Call /\ catalog[r] \in Row /\ catalog[r].table = input[c].table
        /\ catalog'[r] \in Row /\ catalog'[r].table = catalog[r].table
        /\ catalog'[r].name = IF input[c].name = Null THEN catalog[r].name ELSE input[c].name
        /\ \A s \in Call \ {r} : catalog'[s] = catalog[s]
    BY <1>3, <2>1, UpdatedRow
  <2>3. \A s \in Call \ {r} : catalog[s] # NoRow /\ catalog[s].table = catalog'[r].table
                              => catalog[s].name # catalog'[r].name
    <3>1. ~TakenBesides(c, {r})
      BY <1>3, <2>1 DEF Update, Duplicate
    <3> QED BY <1>0, <2>2, <3>1, RecordsExist DEF TakenBesides, NamesUnique
  <2> QED BY <1>1, <2>2, <2>3
<1>4. CASE Delete(c)
  <2>1. \A s \in Call : catalog'[s] = catalog[s] \/ catalog'[s] = NoRow
    BY <1>0, <1>4 DEF Delete, ImageTypeOK
  <2> QED BY <1>0, <2>1 DEF NamesUnique
<1>5. CASE catalog' = catalog
  BY <1>0, <1>5 DEF NamesUnique
<1> QED BY <1>2, <1>3, <1>4, <1>5 DEF Step, Receive, Gateway, Handler, Upload, UploadFails, Break,
    Find, Check, FindFails, UpdateNothing, WriteFails, Reread, RereadFails, Fail

\* The image in a call's hand is its own.
LEMMA OwnImage ==
  ASSUME ImageIInv, NEW c \in Call, imageUrl[c] # Null
  PROVE  imageUrl[c] = c /\ c \in uploaded /\ input[c].file
BY DEF ImageIInv, CallOk

\* An image that belongs to a row goes on to belong to it.
LEMMA BelongsStays ==
  ASSUME ImageIInv, NEW c \in Call, Step(c), NEW r, NEW row, Belongs(r, row)
  PROVE  Belongs(r, row)'
<1>0. ImageTypeOK
  BY DEF ImageIInv
<1>1. SUFFICES ASSUME row.image # Null
               PROVE  Sent(row.image, r, row.table)' \/ Named(row.image, r, row.table)'
  BY DEF Belongs
<1>2. CASE Sent(row.image, r, row.table)
  <2>1. row.image \in Call /\ pc[row.image] # "idle"
    BY <1>0, <1>2 DEF Sent, ImageIInv, ImageTypeOK, CallOk
  <2>2. input'[row.image] = input[row.image]
    BY <1>0, <2>1, OthersStay, InputStays
  <2> QED BY <1>0, <1>2, <2>2, OthersStay DEF Sent
<1>3. CASE Named(row.image, r, row.table)
  BY <1>3, WriterStays DEF Named
<1> QED BY <1>1, <1>2, <1>3 DEF Belongs

LEMMA BelongsStep ==
  ASSUME ImageIInv, NEW c \in Call, Step(c)
  PROVE  ImageBelongs'
<1>0. ImageTypeOK /\ ImageBelongs
  BY DEF ImageIInv
<1> SUFFICES ASSUME NEW r \in Call, catalog'[r] # NoRow PROVE Belongs(r, catalog[r])'
  BY DEF ImageBelongs
<1>1. ASSUME NEW row, catalog'[r] = row, Belongs(r, row) PROVE Belongs(r, catalog[r])'
  BY <1>1, BelongsStays DEF Belongs, Sent, Named
<1>3. CASE catalog'[r] = catalog[r]
  BY <1>0, <1>1, <1>3 DEF ImageBelongs
<1>4. CASE Insert(c) /\ r = c
  <2>1. /\ catalog'[r].image = imageUrl[c] /\ catalog'[r].table = input[c].table
        /\ input[c].target = c
    BY <1>0, <1>4, InputType DEF Insert, ImageTypeOK
  <2> QED BY <1>1, <1>4, <2>1, OwnImage DEF Belongs, Sent
<1>5. CASE Update(c) /\ r = input[c].target
  <2>1. /\ catalog[r] # NoRow /\ catalog[r] \in Row /\ catalog[r].table = input[c].table
        /\ catalog'[r].table = catalog[r].table
        /\ catalog'[r].image = NewImage(c, catalog[r].image)
    BY <1>5, UpdatedRow, RecordsExist
  <2>2. CASE catalog'[r].image = imageUrl[c]
    BY <1>1, <1>5, <2>1, <2>2, OwnImage DEF Belongs, Sent
  <2>3. CASE catalog'[r].image = catalog[r].image
    <3>1. Belongs(r, catalog'[r])
      BY <1>0, <2>1, <2>3 DEF ImageBelongs, Belongs
    <3> QED BY <1>1, <3>1
  <2>4. CASE input[c].avatar # Absent /\ catalog'[r].image = input[c].avatar
    <3>1. input[c].avatar \in Link /\ input[c].table = "user"
      BY <1>5, <2>4, InputType DEF Update, Input
    <3>2. c \in wrote' /\ input' = input /\ catalog'[r].table = "user"
      BY <1>5, <2>1, <3>1 DEF Update
    <3>3. Named(catalog[r].image, r, catalog[r].table)'
      BY <1>5, <2>4, <3>1, <3>2 DEF Named
    <3> QED BY <3>3 DEF Belongs
  <2> QED BY <2>1, <2>2, <2>3, <2>4 DEF NewImage
<1>6. \/ catalog'[r] = catalog[r]
      \/ Insert(c) /\ r = c
      \/ Update(c) /\ r = input[c].target
  <2>1. CASE Insert(c)
    BY <1>0, <2>1 DEF Insert, ImageTypeOK
  <2>2. CASE Update(c)
    BY <2>2, UpdatedRow
  <2>3. CASE Delete(c)
    BY <1>0, <2>3 DEF Delete, ImageTypeOK
  <2>4. CASE catalog' = catalog
    BY <2>4
  <2> QED BY <2>1, <2>2, <2>3, <2>4 DEF Step, Receive, Gateway, Handler, Upload, UploadFails,
      Break, Find, Check, FindFails, UpdateNothing, WriteFails, Reread, RereadFails, Fail
<1> QED BY <1>3, <1>4, <1>5, <1>6

\* What the auth service has read stays a row that was.
LEMMA EntityStep ==
  ASSUME ImageIInv, NEW c \in Call, Step(c), NEW e \in entities'
  PROVE  EntityOk(e)'
<1>1. e \in entities
  BY OthersStay DEF ImageIInv
<1>2. EntityOk(e)
  BY <1>1 DEF ImageIInv
<1>3. e.user \in wrote' /\ input'[e.user] = input[e.user]
  BY <1>2, WriterStays DEF EntityOk
<1>4. Belongs(e.user, e.row)'
  BY <1>2, BelongsStays DEF EntityOk
<1> QED BY <1>2, <1>3, <1>4 DEF EntityOk

\* What the client was told of one call.
AnswerTrue(c) ==
  /\ answer[c] = "success" =>
       /\ c \in wrote \/ (input[c].op # "create" /\ input[c].target \in removed)
       /\ input[c].file => c \in uploaded
  /\ answer[c] = "failure" /\ c \notin broken /\ input[c].op = "create" => c \notin wrote

LEMMA AnswersStep ==
  ASSUME ImageIInv, NEW c \in Call, Step(c)
  PROVE  AnswersTrue'
<1>0. ImageTypeOK /\ CallOk(c) /\ CallOk(c)' /\ \A d \in Call : AnswerTrue(d)
  BY OwnCallStep DEF ImageIInv, AnswersTrue, AnswerTrue
<1>1. ASSUME NEW d \in Call \ {c} PROVE AnswerTrue(d)'
  BY <1>0, OthersStay DEF AnswerTrue
<1> SUFFICES AnswerTrue(c)'
  BY <1>1 DEF AnswersTrue, AnswerTrue
<1>2. ASSUME pc[c] \notin {"idle", "done"}, answer'[c] = answer[c], broken \subseteq broken'
      PROVE  AnswerTrue(c)'
  BY <1>0, <1>2, OthersStay, InputStays DEF AnswerTrue, CallOk
<1>3. ASSUME NEW in \in Input, Receive(c, in) PROVE AnswerTrue(c)'
  BY <1>0, <1>3 DEF Receive, AnswerTrue, CallOk
<1>4. CASE Upload(c)
  BY <1>2, <1>4 DEF Upload
<1>5. CASE Break(c)
  <2>1. answer'[c] = "failure" /\ c \in broken'
    BY <1>0, <1>5 DEF Break, ImageTypeOK
  <2> QED BY <2>1 DEF AnswerTrue
<1>6. CASE Find(c) \/ Check(c) \/ Update(c) \/ UpdateNothing(c)
  BY <1>2, <1>6 DEF Find, Check, Update, UpdateNothing
<1>7. CASE Fail(c) /\ pc[c] \in {"upload", "find", "check", "write", "reread"}
  <2>1. CASE c \in broken
    BY <1>0, <1>2, <1>7, <2>1, ReplyType DEF Fail
  <2>2. CASE c \notin broken
    <3>1. answer'[c] = "failure" /\ UNCHANGED <<input, wrote, broken>>
      BY <1>0, <1>7, <2>2, ReplyType DEF Fail
    <3> QED BY <1>0, <1>7, <3>1 DEF AnswerTrue, CallOk
  <2> QED BY <2>1, <2>2
<1>8. CASE Insert(c) \/ Delete(c) \/ Reread(c)
  <2>1. /\ pc[c] \in {"write", "reread"}
        /\ UNCHANGED <<input, uploaded, broken>>
        /\ answer'[c] = IF c \in broken THEN answer[c] ELSE "success"
    BY <1>0, <1>8, ReplyType DEF Insert, Delete, Reread
  <2>2. c \in wrote' \/ (input[c].op # "create" /\ input[c].target \in removed')
    <3>1. CASE Insert(c)
      BY <3>1 DEF Insert
    <3>2. CASE Delete(c)
      BY <1>0, <3>2 DEF Delete, CallOk, TargetMet
    <3>3. CASE Reread(c)
      BY <1>0, <3>3 DEF Reread, CallOk
    <3> QED BY <1>8, <3>1, <3>2, <3>3
  <2>3. input[c].file => c \in uploaded
    BY <1>0, <2>1 DEF CallOk
  <2>4. CASE c \in broken
    BY <1>2, <2>1, <2>4
  <2>5. CASE c \notin broken
    BY <2>1, <2>2, <2>3, <2>5 DEF AnswerTrue
  <2> QED BY <2>4, <2>5
<1> QED BY <1>3, <1>4, <1>5, <1>6, <1>7, <1>8
    DEF Step, Gateway, Handler, UploadFails, FindFails, WriteFails, RereadFails

LEMMA AvatarStep ==
  ASSUME ImageIInv, NEW c \in Call, Step(c), NEW r \in Call,
         catalog[r] # NoRow, catalog'[r] # NoRow, catalog[r].table = "user",
         catalog'[r].image # catalog[r].image
  PROVE  c \in wrote' \ wrote /\ input[c].target = r /\ AskedFor(c, catalog'[r].image)
<1>0. ImageTypeOK /\ CallOk(c) /\ RowOk(r)
  BY DEF ImageIInv
<1>1. CASE Update(c)
  <2>1. r = input[c].target
    BY <1>1, UpdatedRow
  <2>2. /\ catalog[r].table = input[c].table
        /\ catalog'[r].image = NewImage(c, catalog[r].image)
    BY <1>1, <2>1, UpdatedRow
  <2>3. c \in wrote' \ wrote
    BY <1>0, <1>1 DEF Update, CallOk
  <2>4. CASE imageUrl[c] # Null
    BY <2>1, <2>2, <2>3, <2>4, OwnImage DEF NewImage, AskedFor
  <2>5. CASE imageUrl[c] = Null
    <3>1. catalog'[r].image = input[c].avatar
      BY <2>2, <2>5 DEF NewImage
    <3>2. ~input[c].file
      BY <1>0, <1>1, <2>5, NullAssumption DEF Update, CallOk
    <3> QED BY <2>1, <2>3, <3>1, <3>2 DEF AskedFor
  <2> QED BY <2>4, <2>5
<1>2. CASE Insert(c)
  BY <1>0, <1>2 DEF Insert, CallOk, RowOk, ImageTypeOK
<1>3. CASE Delete(c)
  BY <1>0, <1>3 DEF Delete, ImageTypeOK
<1>4. CASE catalog' = catalog
  BY <1>4
<1> QED BY <1>1, <1>2, <1>3, <1>4 DEF Step, Receive, Gateway, Handler, Upload, UploadFails, Break,
    Find, Check, FindFails, UpdateNothing, WriteFails, Reread, RereadFails, Fail

-----------------------------------------------------------------------------
(* The auth service. *)

\* What a step of the auth service leaves alone.
LEMMA AuthLeaves ==
  ASSUME Auth
  PROVE  UNCHANGED <<pc, input, imageUrl, answer, uploaded, broken, wrote, removed>>
BY DEF Auth, ReadUser, SaveUser, DropUser

\* It changes a row only by a save of what it has read.
LEMMA AuthWrites ==
  ASSUME ImageIInv, Auth, NEW r \in Call, catalog'[r] # catalog[r]
  PROVE  \E e \in entities : /\ SaveUser(e) /\ e.user = r /\ catalog'[r] = e.row
                            /\ e = [user |-> r, row |-> catalog'[r]] /\ EntityOk(e)
<1>1. PICK e \in entities : SaveUser(e)
  BY DEF Auth, ReadUser, DropUser
<1>2. e \in Entity /\ EntityOk(e) /\ ImageTypeOK
  BY <1>1 DEF ImageIInv, ImageTypeOK
<1>3. e.user = r /\ catalog'[r] = e.row
  BY <1>1, <1>2 DEF SaveUser, ImageTypeOK, Entity
<1>4. e = [user |-> e.user, row |-> e.row]
  BY <1>2 DEF Entity
<1> QED BY <1>1, <1>2, <1>3, <1>4

LEMMA AuthStep ==
  ASSUME ImageIInv, Auth
  PROVE  ImageIInv'
<1>0. /\ ImageTypeOK /\ NamesUnique /\ ImageBelongs /\ AnswersTrue
      /\ \A c \in Call : CallOk(c) /\ RowOk(c)
      /\ \A e \in entities : EntityOk(e)
  BY DEF ImageIInv
<1>1. UNCHANGED <<pc, input, imageUrl, answer, uploaded, broken, wrote, removed>>
  BY AuthLeaves
<1>2. catalog' \in [Call -> Row \cup {NoRow}] /\ entities' \subseteq Entity
  <2>1. ASSUME NEW r \in Call, ReadUser(r)
        PROVE  catalog' = catalog /\ entities' \subseteq Entity
    <3>1. catalog[r] \in Row
      BY <1>0, <2>1 DEF ReadUser, ImageTypeOK
    <3> QED BY <1>0, <2>1, <3>1 DEF ReadUser, ImageTypeOK, Entity
  <2>2. ASSUME NEW e \in entities, SaveUser(e)
        PROVE  catalog' \in [Call -> Row \cup {NoRow}] /\ entities' \subseteq Entity
    BY <1>0, <2>2 DEF SaveUser, ImageTypeOK, Entity
  <2>3. ASSUME NEW e \in entities, DropUser(e)
        PROVE  catalog' = catalog /\ entities' \subseteq Entity
    BY <1>0, <2>3 DEF DropUser, ImageTypeOK
  <2> QED BY <1>0, <2>1, <2>2, <2>3 DEF Auth, ImageTypeOK
<1>3. ImageTypeOK'
  BY <1>0, <1>1, <1>2 DEF ImageTypeOK
<1>4. NamesUnique'
  <2>1. CASE catalog' = catalog
    BY <1>0, <2>1 DEF NamesUnique
  <2>2. ASSUME NEW e \in entities, SaveUser(e) PROVE NamesUnique'
    <3>1. /\ e.user \in Call /\ catalog'[e.user] = e.row /\ e.row.table = "user"
          /\ \A s \in Call \ {e.user} : catalog'[s] = catalog[s]
      BY <1>0, <2>2 DEF SaveUser, ImageTypeOK, Entity, EntityOk
    <3>2. \A s \in Call \ {e.user} :
            catalog[s] # NoRow /\ catalog[s].table = "user" => catalog[s].name # e.row.name
      BY <2>2 DEF SaveUser
    <3> QED BY <1>0, <3>1, <3>2 DEF NamesUnique
  <2> QED BY <2>1, <2>2 DEF Auth, ReadUser, DropUser
<1>5. ImageBelongs'
  <2> SUFFICES ASSUME NEW r \in Call, catalog'[r] # NoRow PROVE Belongs(r, catalog[r])'
    BY DEF ImageBelongs
  <2>1. Belongs(r, catalog'[r])
    <3>1. CASE catalog'[r] = catalog[r]
      BY <1>0, <3>1 DEF ImageBelongs
    <3>2. CASE catalog'[r] # catalog[r]
      BY <3>2, AuthWrites DEF EntityOk
    <3> QED BY <3>1, <3>2
  <2> QED BY <1>1, <2>1 DEF Belongs, Sent, Named
<1>6. AnswersTrue'
  BY <1>0, <1>1 DEF AnswersTrue
<1>7. ASSUME NEW r \in Call PROVE RowOk(r)'
  <2>1. CASE catalog'[r] = catalog[r]
    BY <1>0, <1>1, <2>1 DEF RowOk
  <2>2. CASE catalog'[r] # catalog[r]
    BY <1>1, <2>2, AuthWrites DEF RowOk, EntityOk
  <2> QED BY <2>1, <2>2
<1>8. ASSUME NEW c \in Call PROVE CallOk(c)'
  <2>1. pc[c] # "idle" /\ TargetMet(c) => TargetMet(c)'
    <3> SUFFICES ASSUME pc[c] # "idle", TargetMet(c), input[c].target \notin removed
                 PROVE  Exists(c)'
      BY <1>1 DEF TargetMet
    <3>1. input[c].target \in Call /\ Exists(c)
      BY InputType DEF TargetMet
    <3>2. CASE catalog'[input[c].target] = catalog[input[c].target]
      BY <1>1, <3>1, <3>2 DEF Exists
    <3>3. CASE catalog'[input[c].target] # catalog[input[c].target]
      <4>1. PICK e \in entities : /\ e.user = input[c].target /\ EntityOk(e)
                                  /\ catalog'[input[c].target] = e.row
        BY <3>1, <3>3, AuthWrites
      <4>2. e.row \in Row /\ e.row # NoRow
        BY <1>0, RecordsExist DEF ImageTypeOK, Entity
      <4>3. catalog[input[c].target].table = e.row.table
        BY <1>0, <3>1, <4>1 DEF Exists, RowOk, EntityOk
      <4> QED BY <1>1, <3>1, <4>1, <4>2, <4>3 DEF Exists
    <3> QED BY <3>2, <3>3
  <2>2. CallOk(c)
    BY <1>0
  <2> QED BY <1>1, <2>1, <2>2 DEF CallOk
<1>9. ASSUME NEW e \in entities' PROVE EntityOk(e)'
  <2>1. EntityOk(e)
    <3>1. CASE e \in entities
      BY <1>0, <3>1
    <3>2. CASE e \notin entities
      <4>1. PICK r \in Call : ReadUser(r) /\ e = [user |-> r, row |-> catalog[r]]
        BY <3>2 DEF Auth, ReadUser, SaveUser, DropUser
      <4>2. catalog[r] # NoRow /\ catalog[r].table = "user"
        BY <4>1 DEF ReadUser
      <4>3. RowOk(r) /\ Belongs(r, catalog[r])
        BY <1>0, <4>2 DEF ImageBelongs
      <4>4. e.user = r /\ e.row = catalog[r]
        BY <4>1
      <4> QED BY <4>2, <4>3, <4>4 DEF EntityOk, RowOk
    <3> QED BY <3>1, <3>2
  <2> QED BY <1>1, <2>1 DEF EntityOk, Belongs, Sent, Named
<1> QED BY <1>3, <1>4, <1>5, <1>6, <1>7, <1>8, <1>9 DEF ImageIInv

-----------------------------------------------------------------------------
(* The theorems. *)

\* Whatever the administrators, the three services and the connections do: what a
\* call has in hand is its own image, what it found is there or was deleted, and what
\* the auth service holds of a user is a row that was.
THEOREM ImageInvariant == Spec => []ImageIInv
<1>1. ImageIInv /\ [Next]_vars => ImageIInv'
  <2> SUFFICES ASSUME ImageIInv, [Next]_vars PROVE ImageIInv'
    OBVIOUS
  <2>1. ASSUME NEW c \in Call, Step(c) PROVE ImageIInv'
    <3>1. \A d \in Call : CallOk(d)' /\ RowOk(d)'
      BY <2>1, OwnCallStep, OtherCallStep, RowOkStep
    <3>2. \A e \in entities' : EntityOk(e)'
      BY <2>1, EntityStep
    <3> QED BY <2>1, <3>1, <3>2, TypeStep, NamesStep, BelongsStep, AnswersStep DEF ImageIInv
  <2>2. CASE UNCHANGED vars
    BY <2>2 DEF vars, ImageIInv, ImageTypeOK, NamesUnique, ImageBelongs, AnswersTrue, CallOk,
       RowOk, EntityOk, Belongs, Sent, Named, TargetMet, Exists
  <2> QED BY <2>1, <2>2, AuthStep DEF Next, Step
<1> QED BY <1>1, ImageInit, PTL DEF Spec

\* Every variable of the image calls keeps its type: a row's image is a URL or null.
THEOREM ImageTypeCorrect == Spec => []ImageTypeOK
<1>1. ImageIInv => ImageTypeOK
  BY DEF ImageIInv
<1> QED BY <1>1, ImageInvariant, PTL

\* Calls that create or rename at once never give one name to two rows.
THEOREM NamesStayUnique == Spec => []NamesUnique
<1>1. ImageIInv => NamesUnique
  BY DEF ImageIInv
<1> QED BY <1>1, ImageInvariant, PTL

\* The uploads of several administrators are never mixed up: a row shows what a call
\* for it sent or, a user, what the body of a call for it named.
THEOREM ImagesBelong == Spec => []ImageBelongs
<1>1. ImageIInv => ImageBelongs
  BY DEF ImageIInv
<1> QED BY <1>1, ImageInvariant, PTL

\* A success was written and a failed creation left nothing, unless a row was
\* deleted or a connection broke under the call.
THEOREM ClientsAreToldTheTruth == Spec => []AnswersTrue
<1>1. ImageIInv => AnswersTrue
  BY DEF ImageIInv
<1> QED BY <1>1, ImageInvariant, PTL

\* An avatar is replaced only by a call's file or, without one, by the avatar in its
\* body, or by one that the auth service had read and saves.
THEOREM AvatarsStay == Spec => AvatarKept
<1> DEFINE Kept == \A r \in Call :
             catalog[r] # NoRow /\ catalog'[r] # NoRow /\ catalog[r].table = "user"
               => \/ catalog'[r].image = catalog[r].image
                  \/ \E c \in wrote' \ wrote :
                       input[c].target = r /\ AskedFor(c, catalog'[r].image)
                  \/ [user |-> r, row |-> catalog'[r]] \in entities
<1>1. ImageIInv /\ [Next]_vars => [Kept]_vars
  BY AvatarStep, AuthWrites DEF Next, Step
<1> QED BY <1>1, ImageInvariant, PTL DEF Spec, AvatarKept
=============================================================================
