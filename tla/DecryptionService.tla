--------------------------- MODULE DecryptionService ---------------------------
(***************************************************************************)
(* What a library vendor executable promises the vendor, without protocol,   *)
(* process or licence manager: one library is opened, once; its files are    *)
(* handed out only while the customer is entitled; and opening a library     *)
(* leaves the customer entitled only if the global licence is taken with it. *)
(***************************************************************************)
CONSTANTS Data, Readable, GlobalFeature, NoFeature, NoPath, Nothing

VARIABLES
  running,    \* the service has not ended
  library,    \* the library that was opened, or NoPath
  entitled,   \* the customer may have files
  licences,   \* the licences the customer holds
  delivery    \* the <<library, file>> handed out by the last step, or Nothing

vars == <<running, library, entitled, licences, delivery>>

Init ==
  /\ running = TRUE
  /\ library = NoPath
  /\ entitled = FALSE
  /\ licences = {}
  /\ delivery = Nothing

\* Every step may be the last one.
Serves == running /\ running' \in BOOLEAN

\* The customer proves to be one the vendor trusts.
Recognise ==
  /\ Serves
  /\ library = NoPath
  /\ entitled' = TRUE
  /\ UNCHANGED <<library, licences, delivery>>

\* A library is opened; the entitlement survives only with the global licence.
Open(l) ==
  /\ Serves
  /\ library = NoPath
  /\ library' = l
  /\ \/ entitled' = FALSE /\ UNCHANGED licences
     \/ entitled /\ GlobalFeature = NoFeature /\ UNCHANGED <<entitled, licences>>
     \/ /\ entitled /\ GlobalFeature # NoFeature
        /\ licences' = licences \cup {GlobalFeature}
        /\ UNCHANGED entitled
  /\ delivery' = Nothing

Checkout(f) ==
  /\ Serves
  /\ licences' = licences \cup {f}
  /\ delivery' = Nothing
  /\ UNCHANGED <<library, entitled>>

Return(f) ==
  /\ Serves
  /\ licences' = licences \ {f}
  /\ delivery' = Nothing
  /\ UNCHANGED <<library, entitled>>

Deliver(f) ==
  /\ Serves
  /\ entitled
  /\ <<library, f>> \in Readable
  /\ delivery' = <<library, f>>
  /\ UNCHANGED <<library, entitled, licences>>

\* Any other request, and the end of the service.
Refuse ==
  /\ Serves
  /\ delivery' \in {Nothing, delivery}
  /\ library' \in {library, NoPath}
  /\ library' # library => ~running'
  /\ UNCHANGED <<entitled, licences>>

Next ==
  \/ Recognise
  \/ \E d \in Data : Open(d) \/ Checkout(d) \/ Return(d) \/ Deliver(d)
  \/ Refuse

Spec == Init /\ [][Next]_vars
=============================================================================
