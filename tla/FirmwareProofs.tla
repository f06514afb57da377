--------------------------- MODULE FirmwareProofs ---------------------------
(* Proofs about module Firmware, for any keys, peers, periods and bounds: the *)
(* types, that the address is kept through resets up to the failures of the   *)
(* flash, and that the outgoing link is to another board.                     *)
EXTENDS Firmware, FiniteSetTheorems, TLAPS

USE FirmwareAssumption DEF FirmwareAssumption

-----------------------------------------------------------------------------
(* Types *)

LEMMA NewKeyIsNew ==
  ASSUME KeyTypes, drawn # Ids
  PROVE  NewKey \in Ids
  <1>1. \E k \in Ids : k \notin drawn
    BY DEF KeyTypes
  <1>2. QED
    BY <1>1 DEF NewKey

\* Until the key is loaded or drawn there is no identity in RAM; from then on
\* there is one.
Early == {"nvs", "hardware", "wifi", "wait", "load", "halted"}

HasKey == IF pc \in Early THEN identity = None /\ unsaved = None ELSE identity \in Ids

KeyInv == KeyTypes /\ HasKey

\* What the steps after the boot leave alone.
Quiet == /\ pc \in Turning /\ pc' \in Turning
         /\ UNCHANGED <<flash, identity, drawn, lost, resets>>
         /\ announced' \in {announced, announced \cup {identity}}
         /\ faults' \in {faults, faults + 1} /\ faults' <= MaxFaults

\* What the other tasks and the user leave alone.
Aside == UNCHANGED <<pc, flash, identity, history, resets, faults>>

LEMMA LoopIsQuiet ==
  ASSUME KeyTypes,
         TestButton \/ ButtonDone \/ StartOta \/ OtaFails \/ SayHello \/ AnnounceTurn
         \/ EndTurn
  PROVE  Quiet
  <1> USE DEF Quiet, Turning, KeyTypes, history, Fails
  <1>1. CASE TestButton
    BY <1>1 DEF TestButton
  <1>2. CASE ButtonDone
    BY <1>2 DEF ButtonDone
  <1>3. CASE StartOta
    BY <1>3 DEF StartOta
  <1>4. CASE OtaFails
    BY <1>4 DEF OtaFails
  <1>5. CASE SayHello
    BY <1>5 DEF SayHello
  <1>6. CASE AnnounceTurn
    BY <1>6 DEF AnnounceTurn
  <1>7. CASE EndTurn
    BY <1>7 DEF EndTurn
  <1>8. QED
    BY <1>1, <1>2, <1>3, <1>4, <1>5, <1>6, <1>7

LEMMA OthersAreAside ==
  ASSUME Associate \/ Drop \/ OnWifiEvent \/ Mesh \/ Press \/ LetGo
  PROVE  Aside
  BY DEF Aside, Associate, Drop, OnWifiEvent, Mesh, HearAnnounce, HearProof, Press, LetGo,
         wifi, link, button

\* A step is one of the boot, of the loop, of another task, or a reset.
LEMMA StepKinds ==
  ASSUME KeyTypes, [Next]_vars
  PROVE  \/ NvsReady \/ StartHardware \/ StartWifi \/ WifiWaited \/ LoadIdentity
         \/ SetBlob \/ CommitBlob \/ SetUp \/ StartNomadnet
         \/ Quiet \/ Aside \/ Reset
  <1>1. CASE UNCHANGED vars
    BY <1>1 DEF vars, Aside
  <1>2. CASE Next
    BY <1>2, LoopIsQuiet, OthersAreAside DEF Next, Main
  <1>3. QED
    BY <1>1, <1>2

LEMMA KeyStep ==
  ASSUME KeyInv, [Next]_vars
  PROVE  KeyInv'
  <1> USE DEF KeyInv, KeyTypes, HasKey, Early, Booting, Turning, flash, Fails
  <1>1. CASE NvsReady
    <2>1. /\ pc = "nvs" /\ pc' = "hardware" /\ UNCHANGED <<unsaved, identity, drawn, announced, resets>>
          /\ readable' \in BOOLEAN /\ nvs' \in {nvs, None}
      BY <1>1 DEF NvsReady
    <2>2. lost' \in {lost, lost + 1} /\ faults' \in {faults, faults + 1} /\ faults' <= MaxFaults
      BY <1>1 DEF NvsReady
    <2>3. QED
      BY <2>1, <2>2
  <1>2. CASE StartHardware
    BY <1>2 DEF StartHardware, history
  <1>3. CASE StartWifi
    BY <1>3 DEF StartWifi, history
  <1>4. CASE WifiWaited
    BY <1>4 DEF WifiWaited, history
  <1>5. CASE LoadIdentity
    BY <1>5, NewKeyIsNew DEF LoadIdentity, Loads
  <1>6. CASE SetBlob
    BY <1>6 DEF SetBlob
  <1>7. CASE CommitBlob
    BY <1>7 DEF CommitBlob, Committed
  <1>8. CASE SetUp
    <2>1. /\ pc = "setup" /\ pc' = "nomad" /\ UNCHANGED <<flash, identity, history, resets>>
          /\ faults' \in {faults, faults + 1} /\ faults' <= MaxFaults
      BY <1>8 DEF SetUp
    <2>2. QED
      BY <2>1 DEF history
  <1>9. CASE StartNomadnet
    BY <1>9 DEF StartNomadnet
  <1>10. CASE Quiet
    BY <1>10 DEF Quiet
  <1>11. CASE Aside
    BY <1>11 DEF Aside, history
  <1>12. CASE Reset
    <2>1. /\ pc' = "nvs" /\ identity' = None /\ unsaved' = None /\ readable' \in BOOLEAN
          /\ nvs' \in {nvs, unsaved} /\ resets < MaxResets /\ resets' = resets + 1
      BY <1>12 DEF Reset, Fresh
    <2>2. UNCHANGED <<history, faults>>
      BY <1>12 DEF Reset
    <2>3. QED
      BY <2>1, <2>2 DEF history
  <1>13. QED
    BY <1>1, <1>2, <1>3, <1>4, <1>5, <1>6, <1>7, <1>8, <1>9, <1>10, <1>11, <1>12,
       StepKinds

LEMMA NetStep ==
  ASSUME TypeOK, KeyTypes', [Next]_vars
  PROVE  NetTypes'
  <1> USE DEF TypeOK, NetTypes, KeyTypes
  <1>1. CASE NvsReady
    BY <1>1 DEF NvsReady, net, wifi, link
  <1>2. CASE StartHardware
    BY <1>2 DEF StartHardware, net, wifi, link
  <1>3. CASE StartWifi
    BY <1>3 DEF StartWifi, net, wifi, link
  <1>4. CASE WifiWaited
    BY <1>4 DEF WifiWaited, net, wifi, link
  <1>5. CASE LoadIdentity
    BY <1>5 DEF LoadIdentity, net, wifi, link
  <1>6. CASE SetBlob
    BY <1>6 DEF SetBlob, net, wifi, link
  <1>7. CASE CommitBlob
    BY <1>7 DEF CommitBlob, net, wifi, link
  <1>8. CASE SetUp
    BY <1>8 DEF SetUp, net, wifi, link
  <1>9. CASE StartNomadnet
    BY <1>9 DEF StartNomadnet, net, wifi, link
  <1>10. CASE TestButton
    BY <1>10 DEF TestButton, net, wifi, link
  <1>11. CASE ButtonDone
    BY <1>11 DEF ButtonDone, net, wifi, link
  <1>12. CASE StartOta
    BY <1>12 DEF StartOta, net, wifi, link
  <1>13. CASE OtaFails
    BY <1>13 DEF OtaFails, net, wifi, link
  <1>14. CASE AnnounceTurn
    BY <1>14 DEF AnnounceTurn, net, wifi, link
  <1>15. CASE EndTurn
    BY <1>15 DEF EndTurn, net, wifi, link
  <1>16. CASE SayHello
    <2>1. UNCHANGED <<net, wifi, out_link>>
      BY <1>16 DEF SayHello
    <2>2. hello_sent' \in BOOLEAN
      BY <1>16 DEF SayHello, AfterFailure
    <2>3. link_tx' \in {link_tx, link_tx + 1}
      BY <1>16 DEF SayHello
    <2>4. QED
      BY <2>1, <2>2, <2>3 DEF net, wifi
  <1>17. CASE Reset
    <2>1. /\ tcp' \in BOOLEAN /\ started' \in BOOLEAN /\ station' = "off" /\ events' = <<>>
          /\ g_connected' \in BOOLEAN /\ hello_sent' \in BOOLEAN
      BY <1>17 DEF Reset, Fresh
    <2>2. out_link' = NoLink /\ link_tx' = 0 /\ drops' = drops
      BY <1>17 DEF Reset, Fresh
    <2>3. NoLink \in [peer : Ids \cup Peers \cup {None},
                      status : {"none", "handshake", "active", "closed"}]
      BY DEF NoLink
    <2>4. QED
      BY <2>1, <2>2, <2>3
  <1>18. CASE Associate
    BY <1>18 DEF Associate, net, link
  <1>19. CASE Drop
    BY <1>19 DEF Drop, net, link
  <1>20. CASE OnWifiEvent
    <2>1. /\ events # <<>> /\ events' = Tail(events) /\ g_connected' \in BOOLEAN
          /\ station' \in {station, "connecting"}
      BY <1>20 DEF OnWifiEvent, Reconnect
    <2>2. UNCHANGED <<net, drops, link>>
      BY <1>20 DEF OnWifiEvent
    <2>3. events' \in Seq({"got_ip", "disconnected"})
      BY <2>1
    <2>4. QED
      BY <2>1, <2>2, <2>3 DEF net, link
  <1>21. CASE Mesh
    BY <1>21 DEF Mesh, HearAnnounce, HearProof, net, wifi
  <1>22. CASE Press
    BY <1>22 DEF Press, net, wifi, link
  <1>23. CASE LetGo
    BY <1>23 DEF LetGo, net, wifi, link
  <1>24. CASE UNCHANGED vars
    BY <1>24 DEF vars, net, wifi, link
  <1>25. QED
    BY <1>1, <1>2, <1>3, <1>4, <1>5, <1>6, <1>7, <1>8, <1>9, <1>10, <1>11, <1>12,
       <1>13, <1>14, <1>15, <1>16, <1>17, <1>18, <1>19, <1>20, <1>21, <1>22, <1>23,
       <1>24 DEF Next, Main

LEMMA LoopStep ==
  ASSUME TypeOK, [Next]_vars
  PROVE  LoopTypes'
  <1> USE DEF TypeOK, LoopTypes
  <1>1. CASE NvsReady
    BY <1>1 DEF NvsReady, button, display
  <1>2. CASE StartHardware
    BY <1>2 DEF StartHardware, button, display
  <1>3. CASE StartWifi
    BY <1>3 DEF StartWifi, button, display
  <1>4. CASE WifiWaited
    BY <1>4 DEF WifiWaited, button, display
  <1>5. CASE LoadIdentity
    BY <1>5 DEF LoadIdentity, button, display
  <1>6. CASE SetBlob
    BY <1>6 DEF SetBlob, button, display
  <1>7. CASE CommitBlob
    BY <1>7 DEF CommitBlob, button, display
  <1>8. CASE SetUp
    BY <1>8 DEF SetUp, button, display
  <1>9. CASE StartNomadnet
    BY <1>9 DEF StartNomadnet, button, display
  <1>10. CASE TestButton
    BY <1>10 DEF TestButton, button, display
  <1>11. CASE StartOta
    BY <1>11 DEF StartOta, button, display
  <1>12. CASE OtaFails
    BY <1>12 DEF OtaFails, button, display
  <1>13. CASE AnnounceTurn
    BY <1>13 DEF AnnounceTurn, button, display
  <1>14. CASE EndTurn
    BY <1>14 DEF EndTurn, button, display
  <1>15. CASE Associate
    BY <1>15 DEF Associate, button, display
  <1>16. CASE Drop
    BY <1>16 DEF Drop, button, display
  <1>17. CASE OnWifiEvent
    BY <1>17 DEF OnWifiEvent, button, display
  <1>18. CASE ButtonDone
    <2>1. suspended' \in BOOLEAN /\ off_in' = DisplayOn /\ UNCHANGED <<button, oled_up, due>>
      BY <1>18 DEF ButtonDone, AfterPress
    <2>2. QED
      BY <2>1 DEF button
  <1>19. CASE SayHello
    BY <1>19 DEF SayHello, Suspends, button, display
  <1>20. CASE Reset
    <2>1. /\ pressed' \in BOOLEAN /\ oled_up' \in BOOLEAN /\ suspended' \in BOOLEAN
          /\ off_in' = 0 /\ due' = 0 /\ down' = down
      BY <1>20 DEF Reset, Fresh
    <2>2. QED
      BY <2>1
  <1>21. CASE Mesh
    BY <1>21 DEF Mesh, HearAnnounce, HearProof, button, display
  <1>22. CASE Press
    BY <1>22 DEF Press, button, display
  <1>23. CASE LetGo
    BY <1>23 DEF LetGo, button, display
  <1>24. CASE UNCHANGED vars
    BY <1>24 DEF vars, button, display
  <1>25. QED
    BY <1>1, <1>2, <1>3, <1>4, <1>5, <1>6, <1>7, <1>8, <1>9, <1>10, <1>11, <1>12,
       <1>13, <1>14, <1>15, <1>16, <1>17, <1>18, <1>19, <1>20, <1>21, <1>22, <1>23,
       <1>24 DEF Next, Main

TypeInv == TypeOK /\ HasKey

LEMMA TypeInvariant == Spec => []TypeInv
  <1>1. Init => TypeInv
    <2> SUFFICES ASSUME Init PROVE TypeInv
      OBVIOUS
    <2>1. KeyTypes /\ HasKey
      <3>1. readable \in BOOLEAN
        BY DEF Init
      <3>2. QED
        BY <3>1 DEF Init, KeyTypes, HasKey, Early, Booting
    <2>2. NetTypes
      <3>1. {tcp, started, g_connected, hello_sent} \subseteq BOOLEAN
        BY DEF Init
      <3>2. QED
        BY <3>1 DEF Init, NetTypes, NoLink
    <2>3. LoopTypes
      <3>1. {pressed, down, oled_up, suspended} \subseteq BOOLEAN
        BY DEF Init
      <3>2. QED
        BY <3>1 DEF Init, LoopTypes
    <2>4. QED
      BY <2>1, <2>2, <2>3 DEF TypeInv, TypeOK
  <1>2. TypeInv /\ [Next]_vars => TypeInv'
    BY KeyStep, NetStep, LoopStep DEF TypeInv, TypeOK, KeyInv
  <1>3. QED
    BY <1>1, <1>2, PTL DEF Spec

\* TypeCorrect: every reachable state of the board has the declared types, and the
\* identity it runs with is one of its keys.
THEOREM TypeCorrect == Spec => []TypeOK
  BY TypeInvariant, PTL DEF TypeInv

-----------------------------------------------------------------------------
(* The address.  Keys that were announced or may be loaded again, and those   *)
(* that will be drawn although nothing more fails, are paid for by failures.  *)

One(b) == IF b THEN 1 ELSE 0

\* Until the key is in place it counts when the flash gives it back.
Before == Early \cup {"set", "commit"}

Base == (announced \cup {nvs}) \ {None}

Held == (announced \cup {nvs, unsaved, identity}) \ {None}

\* A key will be drawn, or was, that the flash will not hold.
Doomed == \/ pc \in Before \ {"nvs", "commit"} /\ ~readable
          \/ pc = "commit" /\ unsaved = None

Paid == IF pc \in Before
        THEN Cardinality(Base) + One(nvs = None) + One(Doomed) <= lost + 1
        ELSE Cardinality(Held) + One(nvs = None) <= lost + 1

Saving == /\ pc = "set" => unsaved = None /\ (readable => nvs = None)
          /\ pc = "commit" => nvs = None /\ unsaved \in {None, identity}

AddressInv == IsFiniteSet(announced) /\ Saving /\ Paid

LinkInv == (started => pc \notin Before) /\ LinkIsToAnother

LEMMA Smaller ==
  ASSUME NEW S, IsFiniteSet(S), NEW T \in SUBSET S
  PROVE  /\ IsFiniteSet(T) /\ Cardinality(T) <= Cardinality(S)
         /\ Cardinality(S) \in Nat /\ Cardinality(T) \in Nat
  BY FS_Subset, FS_CardinalityType

LEMMA OneMore ==
  ASSUME NEW S, IsFiniteSet(S), NEW x, NEW T \in SUBSET (S \cup {x})
  PROVE  /\ IsFiniteSet(T) /\ Cardinality(T) <= Cardinality(S) + 1
         /\ Cardinality(S) \in Nat /\ Cardinality(T) \in Nat
  <1> DEFINE U == S \cup {x}
  <1>1. Cardinality(S) \in Nat
    BY FS_CardinalityType
  <1>2. /\ IsFiniteSet(U)
        /\ Cardinality(U) = IF x \in S THEN Cardinality(S) ELSE Cardinality(S) + 1
    BY FS_AddElement, Zenon
  <1>3. /\ IsFiniteSet(T) /\ Cardinality(T) <= Cardinality(U) /\ Cardinality(T) \in Nat
    BY <1>2, Smaller
  <1> HIDE DEF U
  <1>4. Cardinality(U) <= Cardinality(S) + 1
    BY <1>1, <1>2
  <1>5. QED
    BY <1>1, <1>2, <1>3, <1>4, FS_CardinalityType

LEMMA FiniteKeys ==
  ASSUME IsFiniteSet(announced)
  PROVE  /\ IsFiniteSet(Base) /\ Cardinality(Base) \in Nat
         /\ IsFiniteSet(Held) /\ Cardinality(Held) \in Nat
  <1>1. IsFiniteSet(announced \cup {nvs})
    BY FS_AddElement
  <1>2. IsFiniteSet(announced \cup {nvs} \cup {unsaved} \cup {identity})
    BY <1>1, FS_AddElement
  <1>3. /\ Base \in SUBSET (announced \cup {nvs})
        /\ Held \in SUBSET (announced \cup {nvs} \cup {unsaved} \cup {identity})
    BY DEF Base, Held
  <1>4. QED
    BY <1>1, <1>2, <1>3, Smaller

LEMMA BootStep ==
  ASSUME KeyInv, AddressInv,
         NvsReady \/ StartHardware \/ StartWifi \/ WifiWaited \/ LoadIdentity
  PROVE  AddressInv'
  <1> USE DEF AddressInv, Saving, Paid, KeyInv, HasKey, KeyTypes, Before, Early, Doomed, One
  <1>1. IsFiniteSet(Base) /\ Cardinality(Base) \in Nat
    BY FiniteKeys
  <1>2. CASE NvsReady
    <2>1. /\ pc = "nvs" /\ pc' = "hardware" /\ UNCHANGED <<announced, identity, unsaved>>
          /\ \/ readable' /\ UNCHANGED <<nvs, lost>>
             \/ readable' /\ nvs' = None /\ lost' = lost + 1
             \/ nvs' = nvs /\ lost' = lost + 1
      BY <1>2 DEF NvsReady
    <2>2. Base' \in SUBSET Base
      BY <2>1 DEF Base
    <2>3. Cardinality(Base') \in Nat /\ Cardinality(Base') <= Cardinality(Base)
      BY <1>1, <2>2, Smaller
    <2>4. QED
      BY <1>1, <2>1, <2>3
  <1>3. CASE StartHardware \/ StartWifi \/ WifiWaited
    <2>1. /\ pc \in Early \ {"nvs"} /\ pc' \in Early \ {"nvs"}
          /\ UNCHANGED <<flash, announced, lost, identity>>
      BY <1>3 DEF StartHardware, StartWifi, WifiWaited, history
    <2>2. Base' = Base
      BY <2>1 DEF Base, flash
    <2>3. QED
      BY <2>1, <2>2 DEF flash
  <1>4. CASE LoadIdentity /\ Loads
    <2>1. /\ pc = "load" /\ pc' = "setup" /\ identity' = nvs /\ nvs # None
          /\ UNCHANGED <<flash, announced, lost>>
      BY <1>4 DEF LoadIdentity, Loads
    <2>2. Held' = Base
      BY <2>1 DEF Held, Base, flash
    <2>3. QED
      BY <2>1, <2>2, <1>1 DEF flash
  <1>5. CASE LoadIdentity /\ ~Loads
    <2>1. /\ pc = "load" /\ pc' = "set" /\ (readable => nvs = None)
          /\ UNCHANGED <<flash, announced, lost>>
      BY <1>5 DEF LoadIdentity, Loads
    <2>2. Base' = Base
      BY <2>1 DEF Base, flash
    <2>3. QED
      BY <2>1, <2>2 DEF flash
  <1>6. QED
    BY <1>2, <1>3, <1>4, <1>5

LEMMA SaveStep ==
  ASSUME KeyInv, AddressInv, SetBlob \/ CommitBlob
  PROVE  AddressInv'
  <1> USE DEF AddressInv, Saving, Paid, KeyInv, HasKey, KeyTypes, Before, Early, Doomed, One
  <1>1. IsFiniteSet(Base) /\ Cardinality(Base) \in Nat /\ identity # None
    BY FiniteKeys, SetBlob \/ CommitBlob DEF SetBlob, CommitBlob
  <1>2. CASE SetBlob /\ readable
    <2>1. /\ pc = "set" /\ pc' = "commit" /\ UNCHANGED <<nvs, announced, identity>>
          /\ \/ unsaved' = identity /\ lost' = lost
             \/ unsaved' = unsaved /\ lost' = lost + 1
      BY <1>2 DEF SetBlob
    <2>2. Base' = Base
      BY <2>1 DEF Base
    <2>3. QED
      BY <1>1, <1>2, <2>1, <2>2
  <1>3. CASE SetBlob /\ ~readable
    <2>1. /\ pc = "set" /\ pc' = "setup"
          /\ UNCHANGED <<nvs, unsaved, announced, identity, lost>>
      BY <1>3 DEF SetBlob
    <2>2. Held' \in SUBSET (Base \cup {identity})
      BY <2>1 DEF Base, Held
    <2>3. Cardinality(Held') \in Nat /\ Cardinality(Held') <= Cardinality(Base) + 1
      BY <1>1, <2>2, OneMore
    <2>4. QED
      BY <1>1, <1>3, <2>1, <2>3
  <1>4. CASE CommitBlob
    <2>1. /\ pc = "commit" /\ pc' = "setup" /\ UNCHANGED <<announced, identity>>
          /\ \/ nvs' = unsaved /\ unsaved' = None /\ lost' = lost
             \/ nvs' = nvs /\ unsaved' = unsaved /\ lost' = lost + 1
      BY <1>4 DEF CommitBlob, Committed
    <2>2. Held' \in SUBSET (Base \cup {identity})
      BY <2>1 DEF Base, Held
    <2>3. Cardinality(Held') \in Nat /\ Cardinality(Held') <= Cardinality(Base) + 1
      BY <1>1, <2>2, OneMore
    <2>4. QED
      BY <1>1, <2>1, <2>3
  <1>5. QED
    BY <1>2, <1>3, <1>4

LEMMA ResetStep ==
  ASSUME KeyInv, AddressInv, Reset
  PROVE  AddressInv'
  <1> USE DEF AddressInv, Saving, Paid, KeyInv, HasKey, KeyTypes, Before, Early, Doomed, One
  <1>1. /\ pc' = "nvs" /\ UNCHANGED <<announced, lost>> /\ unsaved' = None
        /\ \/ nvs' = nvs
           \/ unsaved # None /\ nvs' = unsaved
    BY DEF Reset, history
  <1>2. /\ IsFiniteSet(Base) /\ Cardinality(Base) \in Nat
        /\ IsFiniteSet(Held) /\ Cardinality(Held) \in Nat
    BY FiniteKeys
  <1>3. CASE pc \notin Before
    <2>1. Base' \in SUBSET Held
      BY <1>1 DEF Base, Held
    <2>2. Cardinality(Base') \in Nat /\ Cardinality(Base') <= Cardinality(Held)
      BY <1>2, <2>1, Smaller
    <2>3. QED
      BY <1>1, <1>2, <1>3, <2>2
  <1>4. CASE pc \in Before /\ nvs' = nvs
    <2>1. Base' = Base
      BY <1>1, <1>4 DEF Base
    <2>2. QED
      BY <1>1, <1>2, <1>4, <2>1
  <1>5. CASE pc \in Before /\ nvs' = unsaved /\ unsaved # None
    <2>1. pc = "commit" /\ nvs = None
      BY <1>5
    <2>2. Base' \in SUBSET (Base \cup {unsaved})
      BY <1>1, <1>5 DEF Base
    <2>3. Cardinality(Base') \in Nat /\ Cardinality(Base') <= Cardinality(Base) + 1
      BY <1>2, <2>2, OneMore
    <2>4. QED
      BY <1>1, <1>2, <1>5, <2>1, <2>3
  <1>6. QED
    BY <1>1, <1>3, <1>4, <1>5

LEMMA AddressStep ==
  ASSUME KeyInv, KeyInv', AddressInv, [Next]_vars
  PROVE  AddressInv'
  <1> USE DEF AddressInv, Saving, Paid, KeyInv, HasKey, KeyTypes, Before, Early, Doomed, One
  <1>1. CASE NvsReady \/ StartHardware \/ StartWifi \/ WifiWaited \/ LoadIdentity
    BY <1>1, BootStep
  <1>2. CASE SetBlob \/ CommitBlob
    BY <1>2, SaveStep
  <1>3. CASE Reset
    BY <1>3, ResetStep
  <1>4. CASE SetUp \/ StartNomadnet \/ Quiet
    <2>1. /\ pc \notin Before /\ pc' \notin Before /\ identity # None
          /\ UNCHANGED <<flash, identity, lost>>
          /\ announced' \in {announced, announced \cup {identity}}
      BY <1>4 DEF SetUp, StartNomadnet, Quiet, Turning, history
    <2>2. IsFiniteSet(announced')
      BY <2>1, FS_AddElement
    <2>3. Held' = Held
      BY <2>1 DEF Held, flash
    <2>4. QED
      BY <2>1, <2>2, <2>3 DEF flash
  <1>5. CASE Aside
    <2>1. UNCHANGED <<pc, flash, identity, announced, lost>>
      BY <1>5 DEF Aside, history
    <2>2. Base' = Base /\ Held' = Held
      BY <2>1 DEF Base, Held, flash
    <2>3. QED
      BY <2>1, <2>2 DEF flash
  <1>6. QED
    BY <1>1, <1>2, <1>3, <1>4, <1>5, StepKinds

-----------------------------------------------------------------------------
(* The outgoing link *)

\* Once the board takes frames in, and while the flash lost nothing, it knows
\* every identity it was ever announced under as its own.
LEMMA KnowsItself ==
  ASSUME KeyInv, AddressInv, started => pc \notin Before, Listens, lost = 0
  PROVE  announced \subseteq {identity}
  <1>1. pc \notin Before
    BY DEF Listens, Before, Early
  <1>2. /\ IsFiniteSet(Held) /\ Cardinality(Held) \in Nat /\ Cardinality(Held) <= 1
    BY <1>1, FiniteKeys DEF AddressInv, Paid, One
  <1>3. announced \subseteq Held /\ identity \in Held
    BY <1>1 DEF Held, Before, KeyInv, KeyTypes, HasKey
  <1>4. ASSUME NEW k \in announced PROVE k = identity
    <2> SUFFICES ASSUME k # identity PROVE FALSE
      OBVIOUS
    <2>1. {k, identity} \in SUBSET Held
      BY <1>3
    <2>2. IsFiniteSet({identity}) /\ Cardinality({identity}) = 1
      BY FS_Singleton
    <2>3. {identity} \cup {k} = {k, identity}
      OBVIOUS
    <2>4. Cardinality({k, identity}) = 2
      <3>1. Cardinality({identity} \cup {k}) = 1 + 1
        BY <2>2, FS_AddElement, k \notin {identity}, Zenon
      <3>2. QED
        BY <2>3, <3>1
    <2>5. Cardinality({k, identity}) <= Cardinality(Held)
      BY <1>2, <2>1, Smaller
    <2>6. QED
      BY <1>2, <2>4, <2>5
  <1>5. QED
    BY <1>4

LEMMA LinkStep ==
  ASSUME KeyInv, AddressInv, LinkInv, [Next]_vars
  PROVE  LinkInv'
  <1> USE DEF LinkInv, LinkIsToAnother
  <1>1. CASE \E id \in Peers \cup announced, d \in {"heltec_v3", "node"} : HearAnnounce(id, d)
    <2>1. PICK id \in Peers \cup announced, d \in {"heltec_v3", "node"} : HearAnnounce(id, d)
      BY <1>1
    <2>2. /\ Listens /\ id # identity /\ out_link'.peer = id
          /\ UNCHANGED <<pc, net, history>>
      BY <2>1 DEF HearAnnounce, IsOwn
    <2>3. lost = 0 => id \notin Ids
      BY <2>2, KnowsItself
    <2>4. QED
      BY <2>2, <2>3 DEF net, history
  <1>2. CASE HearProof
    <2>1. out_link'.peer \in Peers /\ UNCHANGED <<pc, net, history>>
      BY <1>2 DEF HearProof
    <2>2. QED
      BY <2>1 DEF net, history
  <1>3. CASE Reset
    BY <1>3 DEF Reset, Fresh, NoLink, history
  <1>4. CASE SetUp
    BY <1>4 DEF SetUp, Before, Early, link, history
  <1>5. CASE NvsReady \/ StartHardware \/ StartWifi \/ WifiWaited \/ LoadIdentity \/ SetBlob
    <2>1. /\ pc \in Before /\ started' = started /\ out_link' = out_link
          /\ lost' \in {lost, lost + 1}
      BY <1>5 DEF NvsReady, StartHardware, StartWifi, WifiWaited, LoadIdentity, SetBlob,
                  Before, Early, net, link, history
    <2>2. QED
      BY <2>1 DEF KeyInv, KeyTypes
  <1>6. CASE CommitBlob
    <2>1. /\ pc' \notin Before /\ out_link' = out_link /\ lost' \in {lost, lost + 1}
      BY <1>6 DEF CommitBlob, Before, Early, link
    <2>2. QED
      BY <2>1 DEF KeyInv, KeyTypes
  <1>7. CASE \/ StartNomadnet \/ TestButton \/ ButtonDone \/ StartOta \/ OtaFails
             \/ AnnounceTurn \/ EndTurn
    <2>1. /\ pc' \notin Before /\ out_link' = out_link /\ lost' = lost
      BY <1>7 DEF StartNomadnet, TestButton, ButtonDone, StartOta, OtaFails, AnnounceTurn,
                  EndTurn, Before, Early, link, history
    <2>2. QED
      BY <2>1
  <1>8. CASE SayHello
    BY <1>8 DEF SayHello, Before, Early, history
  <1>9. CASE Associate \/ Drop \/ OnWifiEvent \/ Press \/ LetGo \/ UNCHANGED vars
    <2>1. UNCHANGED <<pc, started, out_link, lost>>
      BY <1>9 DEF Associate, Drop, OnWifiEvent, Press, LetGo, vars, net, link, history
    <2>2. QED
      BY <2>1
  <1>10. QED
    BY <1>1, <1>2, <1>3, <1>4, <1>5, <1>6, <1>7, <1>8, <1>9 DEF Next, Main, Mesh

LEMMA BoardInvariant == Spec => [](AddressInv /\ LinkInv)
  <1>1. Init => AddressInv /\ LinkInv
    <2> SUFFICES ASSUME Init PROVE AddressInv /\ LinkInv
      OBVIOUS
    <2>1. /\ pc = "nvs" /\ nvs = None /\ announced = {} /\ lost = 0 /\ ~started
          /\ out_link.peer = None
      BY DEF Init, NoLink
    <2>2. Base = {} /\ IsFiniteSet({}) /\ Cardinality({}) = 0
      BY <2>1, FS_EmptySet DEF Base
    <2>3. AddressInv
      BY <2>1, <2>2 DEF AddressInv, Saving, Paid, Before, Early, Doomed, One
    <2>4. LinkInv
      BY <2>1 DEF LinkInv, LinkIsToAnother
    <2>5. QED
      BY <2>3, <2>4
  <1>2. /\ KeyInv /\ KeyInv' /\ AddressInv /\ LinkInv /\ [Next]_vars
        => AddressInv' /\ LinkInv'
    BY AddressStep, LinkStep
  <1>3. TypeInv => KeyInv
    BY DEF TypeInv, TypeOK, KeyInv
  <1>4. QED
    BY <1>1, <1>2, <1>3, TypeInvariant, PTL DEF Spec

\* AddressIsKeptHolds: whatever the keys and however often it is reset, the board
\* was announced under one identity, and one more per failure of the flash.
THEOREM AddressIsKeptHolds == Spec => []AddressIsKept
  <1>1. KeyInv /\ AddressInv => AddressIsKept
    <2> SUFFICES ASSUME KeyInv, AddressInv PROVE AddressIsKept
      OBVIOUS
    <2>1. announced \in SUBSET Base /\ announced \in SUBSET Held
      BY DEF Base, Held, KeyInv, KeyTypes
    <2>2. /\ IsFiniteSet(Base) /\ Cardinality(Base) \in Nat
          /\ IsFiniteSet(Held) /\ Cardinality(Held) \in Nat
      BY FiniteKeys DEF AddressInv
    <2>3. /\ Cardinality(announced) <= Cardinality(Base)
          /\ Cardinality(announced) <= Cardinality(Held)
          /\ Cardinality(announced) \in Nat
      BY <2>1, <2>2, Smaller
    <2>4. QED
      BY <2>2, <2>3 DEF AddressInv, Paid, One, AddressIsKept, KeyInv, KeyTypes
  <1>2. TypeInv => KeyInv
    BY DEF TypeInv, TypeOK, KeyInv
  <1>3. QED
    BY <1>1, <1>2, TypeInvariant, BoardInvariant, PTL

\* LinkIsToAnotherHolds: while the flash lost nothing, g_out_link is to another
\* board, for any number of resets and of echoed announces.
THEOREM LinkIsToAnotherHolds == Spec => []LinkIsToAnother
  BY BoardInvariant, PTL DEF LinkInv

=============================================================================
