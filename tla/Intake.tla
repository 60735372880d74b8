------------------------------- MODULE Intake -------------------------------
(***************************************************************************)
(* The arrival of one vehicle: work orders opened at the desk or by the    *)
(* tablet's check-in, their numbers, and the photos that document them,    *)
(* kept twice: as rows of work_order_photos and as a list in the order.    *)
(*                                                                         *)
(* Every count and every look for an active order happens some statements  *)
(* before the write it decides on; the unique keys of the number and the   *)
(* plate are all that stands between two requests.                         *)
(***************************************************************************)
EXTENDS Integers, FiniteSets, Sequences, Overlaps

CONSTANTS
    Orders,      \* work orders of the vehicle
    MaxRows,     \* bound: how many rows of work_order_photos are ever written
    Images,      \* what a photo shows
    MaxPhotos,   \* MAX_PHOTOS_PER_ORDER
    Checkin,     \* numbers of photos a check-in may bring
    Documented   \* bound: the orders whose photos are modelled

ASSUME PhotoAssumption ==
    /\ IsFiniteSet(Orders) /\ IsFiniteSet(Workers)
    /\ MaxPhotos \in Nat \ {0} /\ MaxRows \in Nat
    /\ Documented \subseteq Orders
    /\ Checkin \subseteq 1..MaxPhotos

VARIABLES
    vehicle,   \* the plate is registered
    status,    \* of each order: none yet, active, or delivered or cancelled
    number,    \* WorkOrder.number, 0 before there is one
    founded,   \* observer: orders opened by a check-in that found no vehicle
    photo,     \* each row: not yet there, of an order with an image, or deleted
    column,    \* WorkOrder.photos: how often each image is listed
    torn       \* orders of which a request wrote the row and not the list

opening == <<vehicle, status, number, founded>>
evidence == <<photo, column, torn>>
intakeVars == <<vehicle, status, number, founded, photo, column, torn, overlap, req>>

-----------------------------------------------------------------------------
\* Rows are numbered in the order they are written; an id is used once.
Photos == 1..MaxRows

Existing == {o \in Orders : status[o] # "none"}
Active == {o \in Orders : status[o] = "active"}

Unused == [op |-> "unused"]
Deleted == [op |-> "deleted"]
Shot(o, i) == [op |-> "kept", of |-> o, image |-> i]

\* How many rows were written so far.
Written == Cardinality({p \in Photos : photo[p] # Unused})

\* Rows of an order, and those of them with an image.
RowsOf(o) == {p \in Photos : \E i \in Images : photo[p] = Shot(o, i)}
RowsWith(o, i) == {p \in Photos : photo[p] = Shot(o, i)}

Sheet == [Images -> Nat]

Requests ==
         [op : {"checkin"}, known : BOOLEAN]
    \cup [op : {"insert"}, via : {"desk", "checkin", "founding"}, n : Nat]
    \cup [op : {"upload", "push", "camera"}, o : Orders, image : Images]
    \cup [op : {"delete"}, o : Orders, p : Photos, seen : Sheet]
    \cup [op : {"trim"}, o : Orders, left : Sheet]

IntakeTypeOK ==
    /\ vehicle \in BOOLEAN
    /\ status  \in [Orders -> {"none", "active", "closed"}]
    /\ number  \in [Orders -> Nat]
    /\ founded \in 0..Cardinality(Orders)
    /\ photo   \in [Photos -> {Unused, Deleted} \cup {Shot(o, i) : o \in Orders, i \in Images}]
    /\ column  \in [Orders -> Sheet]
    /\ torn    \in SUBSET Orders
    /\ overlap \in BOOLEAN
    /\ req     \in [Workers -> Requests \cup {Idle}]

IntakeInit ==
    /\ vehicle \in BOOLEAN
    /\ status = [o \in Orders |-> "none"]
    /\ number = [o \in Orders |-> 0]
    /\ founded = 0
    /\ photo = [p \in Photos |-> Unused]
    /\ column = [o \in Orders |-> [i \in Images |-> 0]]
    /\ torn = {}
    /\ overlap = FALSE
    /\ req = [w \in Workers |-> Idle]

Wait(w, r) ==
    /\ req[w] = Idle
    /\ req' = [req EXCEPT ![w] = r]
    /\ UNCHANGED <<opening, evidence>>

-----------------------------------------------------------------------------
(* Opening an order *)

\* Mutant: one active order is not enough to refuse the vehicle.
BeginCheckinPartial(w) ==
    /\ vehicle => Cardinality(Active) <= 1
    /\ Wait(w, [op |-> "checkin", known |-> vehicle])

\* POST /orders/checkin: a known vehicle has no active order.
BeginCheckin(w) ==
    /\ vehicle => Active = {}
    /\ Wait(w, [op |-> "checkin", known |-> vehicle])

\* The count of this year's orders, plus one.
NextNumber == Cardinality(Existing) + 1

\* Its transaction begins with the count of the orders.
CountForCheckin(w) ==
    /\ req[w].op = "checkin"
    /\ req' = [req EXCEPT ![w] = [op |-> "insert", n |-> NextNumber,
                                  via |-> IF req[w].known THEN "checkin" ELSE "founding"]]
    /\ UNCHANGED <<opening, evidence>>

\* POST /orders, for a vehicle chosen from the list: nobody asks what is active.
CountForDesk(w) ==
    /\ vehicle
    /\ Wait(w, [op |-> "insert", n |-> NextNumber, via |-> "desk"])

\* Mutant: the number is not a key.
OpenAnyNumber(w, o) ==
    /\ Takes(w, "insert")
    /\ status[o] = "none"
    /\ status' = [status EXCEPT ![o] = "active"]
    /\ number' = [number EXCEPT ![o] = req[w].n]

\* The order o is written; its number is unique.
Open(w, o) ==
    /\ Takes(w, "insert")
    /\ status[o] = "none"
    /\ \A x \in Orders : number[x] # req[w].n
    /\ status' = [status EXCEPT ![o] = "active"]
    /\ number' = [number EXCEPT ![o] = req[w].n]

OpenAtDesk(w, o) ==
    /\ req[w].op = "insert" /\ req[w].via = "desk"
    /\ Open(w, o)
    /\ UNCHANGED <<vehicle, founded, evidence>>

\* The photos of a check-in, one after the other, as rows and in the list.
Attach(o, pics) ==
    /\ Written + Len(pics) <= MaxRows
    /\ photo' = [p \in Photos |-> IF p - Written \in DOMAIN pics THEN Shot(o, pics[p - Written])
                                  ELSE photo[p]]
    /\ column' = [column EXCEPT ![o] =
                    [i \in Images |-> Cardinality({k \in DOMAIN pics : pics[k] = i})]]
    /\ UNCHANGED torn

\* The rest of the transaction of a check-in: the vehicle, if none was found before
\* it (its plate is unique), the order, and its photos in both places.
OpenAtCheckin(w, o, pics) ==
    /\ req[w].op = "insert" /\ req[w].via # "desk"
    /\ req[w].via = "founding" => ~vehicle
    /\ vehicle' = TRUE
    /\ founded' = IF req[w].via = "founding" THEN founded + 1 ELSE founded
    /\ Open(w, o)
    /\ Attach(o, pics)

\* The routes that end an order, and the edit that takes a delivered one back.
Move(o) ==
    /\ status[o] # "none"
    /\ status' = [status EXCEPT ![o] = IF @ = "active" THEN "closed" ELSE "active"]
    /\ UNCHANGED <<vehicle, number, founded, evidence, req>>

-----------------------------------------------------------------------------
(* Photos *)

\* Mutant: the limit itself is let through.
RoomOffByOne(o) == status[o] # "none" /\ Cardinality(RowsOf(o)) <= MaxPhotos

Room(o) == status[o] # "none" /\ Cardinality(RowsOf(o)) < MaxPhotos

\* POST /orders/:id/photos, and a capture the camera's bridge delivers.
BeginPhoto(w, op, o, i) ==
    /\ Room(o)
    /\ Wait(w, [op |-> op, o |-> o, image |-> i])

Listed(o, i) == column' = [column EXCEPT ![o][i] = @ + 1]

Stored(w) ==
    /\ Written < MaxRows
    /\ photo' = [photo EXCEPT ![Written + 1] = Shot(req[w].o, req[w].image)]

\* Uploading writes the row, then the list, in calls of their own ...
UploadRow(w) ==
    /\ req[w].op = "upload"
    /\ Stored(w)
    /\ req' = [req EXCEPT ![w].op = "push"]
    /\ UNCHANGED <<opening, column, torn>>

UploadColumn(w) ==
    /\ Takes(w, "push")
    /\ Listed(req[w].o, req[w].image)
    /\ UNCHANGED <<opening, photo, torn>>

\* ... the camera's photo both in one transaction.
CameraPhoto(w) ==
    /\ Takes(w, "camera")
    /\ Stored(w)
    /\ Listed(req[w].o, req[w].image)
    /\ UNCHANGED <<opening, torn>>

\* DELETE /orders/:id/photos/:photoId reads the order with its list ...
BeginDelete(w, p) ==
    /\ photo[p].op = "kept"
    /\ Wait(w, [op |-> "delete", o |-> photo[p].of, p |-> p, seen |-> column[photo[p].of]])

\* Mutant: the row goes and the list is written back as it was.
DeleteRowOnly(w) ==
    /\ req[w].op = "delete"
    /\ photo[req[w].p].op = "kept"
    /\ photo' = [photo EXCEPT ![req[w].p] = Deleted]
    /\ req' = [req EXCEPT ![w] = [op |-> "trim", o |-> req[w].o, left |-> req[w].seen]]
    /\ UNCHANGED <<opening, column, torn>>

\* ... deletes the row ...
DeleteRow(w) ==
    /\ req[w].op = "delete"
    /\ photo[req[w].p].op = "kept"
    /\ photo' = [photo EXCEPT ![req[w].p] = Deleted]
    /\ req' = [req EXCEPT ![w] = [op |-> "trim", o |-> req[w].o,
                                  left |-> [req[w].seen EXCEPT ![photo[req[w].p].image] = 0]]]
    /\ UNCHANGED <<opening, column, torn>>

\* ... and writes back the list it read, without any photo that looks the same.
DeleteFromColumn(w) ==
    /\ Takes(w, "trim")
    /\ column' = [column EXCEPT ![req[w].o] = req[w].left]
    /\ UNCHANGED <<opening, photo, torn>>

\* A request is refused by a key, loses its connection or dies.
IntakeFail(w) ==
    /\ req[w] # Idle
    /\ torn' = IF req[w].op \in {"push", "trim"} THEN torn \cup {req[w].o} ELSE torn
    /\ req' = [req EXCEPT ![w] = Idle]
    /\ UNCHANGED <<opening, photo, column>>

-----------------------------------------------------------------------------
\* The photos a check-in that opens o may bring.
Bundles(o) == IF o \in Documented THEN UNION {[1..n -> Images] : n \in Checkin} ELSE {<<>>}

IntakeBegin(w) ==
    \/ BeginCheckin(w)
    \/ CountForDesk(w)
    \/ \E o \in Documented, i \in Images, op \in {"upload", "camera"} : BeginPhoto(w, op, o, i)
    \/ \E p \in Photos : BeginDelete(w, p)

IntakeContinue(w) ==
    \/ CountForCheckin(w)
    \/ \E o \in Orders : OpenAtDesk(w, o) \/ (\E pics \in Bundles(o) : OpenAtCheckin(w, o, pics))
    \/ UploadRow(w) \/ UploadColumn(w) \/ CameraPhoto(w)
    \/ DeleteRow(w) \/ DeleteFromColumn(w)
    \/ IntakeFail(w)

IntakeNext ==
    \/ \E w \in Workers :
         \/ IntakeBegin(w) /\ overlap' = (overlap \/ Busy # {})
         \/ IntakeContinue(w) /\ UNCHANGED overlap
    \/ \E o \in Orders : Move(o) /\ overlap' = (overlap \/ Busy # {})

IntakeSpec == IntakeInit /\ [][IntakeNext]_intakeVars

-----------------------------------------------------------------------------
(* What holds however the requests interleave *)

\* Two tablets that register the same unknown plate together open one order: the
\* plate is unique and the transaction of the second goes back as a whole
\* (vehicleCheckin).
NewPlateOnce == founded <= 1

\* The count-plus-one of create and vehicleCheckin works because the numbers in use
\* are always 1 to their count: a collision is refused by the key, and leaves no gap
\* on which every later order would collide.
NumbersGapless == {number[o] : o \in Existing} = 1..Cardinality(Existing)

\* The two keys of the intake, plates and numbers, bear what overlaps.
KeysHold == NewPlateOnce /\ NumbersGapless

\* The limit of photos is read before it is used; it is passed by at most one photo
\* for every other request in flight (uploadPhoto, captureCameraPhoto).
PhotoCapBounded ==
    \A o \in Orders : Cardinality(RowsOf(o)) <= MaxPhotos + Cardinality(Workers) - 1

-----------------------------------------------------------------------------
(* What holds as long as requests do not overlap *)

\* A check-in is refused while the vehicle has an active order, whoever opened it.
CheckinFindsNoActive ==
    [][\A w \in Workers :
         req[w].op = "insert" /\ req[w].via # "desk" /\ Existing' # Existing /\ ~overlap =>
             Active = {}]_intakeVars

\* A list that shows no image of an order more often than there are rows for it.
Backed(o, list) == \A i \in Images : list[i] <= Cardinality(RowsWith(o, i))

\* deletePhoto rewrites the whole list: between requests the lists are backed by rows,
\* but for the orders of which a request was cut short between the two.
ColumnBacked == ~overlap /\ Busy = {} => \A o \in Orders \ torn : Backed(o, column[o])

-----------------------------------------------------------------------------
(* The inductive invariant of these properties *)

\* A vehicle with an order is known, and nobody carries a number that was not the
\* next one when it was counted.
NumbersAreTrue ==
    /\ founded > 0 \/ Existing # {} => vehicle
    /\ \A w \in Workers :
         /\ req[w].op = "checkin" => (req[w].known => vehicle)
         /\ req[w].op = "insert" =>
              /\ req[w].n \in 1..NextNumber
              /\ req[w].via # "founding" => vehicle

\* Rows are written without gaps; those of an order, with the photos that were let
\* through and are not written yet, keep the bound.
Shooting(o) == {w \in Workers : req[w].op \in {"upload", "camera"} /\ req[w].o = o}

RowsAreTrue ==
    /\ {p \in Photos : photo[p] # Unused} = 1..Written
    /\ \A w \in Workers :
         req[w].op \in {"upload", "push", "camera"} => status[req[w].o] # "none"
    /\ \A o \in Orders :
         /\ status[o] = "none" => RowsOf(o) = {}
         /\ Cardinality(RowsOf(o)) + Cardinality(Shooting(o))
              <= MaxPhotos + Cardinality(Workers) - 1

\* The one request under way, while none has overlapped: what it has read is still so,
\* and the list it will leave is backed.
ReadIsStill(w) ==
    LET r == req[w]
    IN /\ r.op = "checkin" \/ (r.op = "insert" /\ r.via # "desk") => Active = {}
       /\ r.op = "delete" =>
            r.seen = column[r.o] /\ (photo[r.p].op = "kept" => photo[r.p].of = r.o)
       /\ r.op = "push" =>
            r.o \in torn \/ column[r.o][r.image] < Cardinality(RowsWith(r.o, r.image))
       /\ r.op = "trim" => r.o \in torn \/ Backed(r.o, r.left)

NobodyBetween ==
    /\ Alone
    /\ \A w \in Workers : ReadIsStill(w)
    /\ \A o \in Orders \ torn :
         Backed(o, column[o]) \/ \E w \in Workers : req[w].op = "trim" /\ req[w].o = o

IntakeInv ==
    /\ IntakeTypeOK
    /\ KeysHold
    /\ NumbersAreTrue
    /\ RowsAreTrue
    /\ overlap \/ NobodyBetween
=============================================================================
