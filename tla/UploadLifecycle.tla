--------------------------- MODULE UploadLifecycle ---------------------------
(***************************************************************************)
(* What a share link promises about uploads.  An upload is started for one *)
(* name, receives its bytes one after the other and ends once: complete,   *)
(* failed or cancelled.  What has ended changes no more.  A name is taken  *)
(* only by an upload that has all of its bytes, and an upload is complete  *)
(* only when its name is taken, although another one may have taken it and *)
(* although the upload may have failed by then.                            *)
(***************************************************************************)
EXTENDS Naturals

CONSTANTS Uploads, Names, NoName, Size

VARIABLES phase,     \* how far each upload is
          bytes,     \* how much of each has arrived
          target,    \* the name each is for
          taken      \* the names that have a file

uploadVars == <<phase, bytes, target, taken>>

UploadInit == /\ phase = [u \in Uploads |-> "none"]
              /\ bytes = [u \in Uploads |-> 0]
              /\ target = [u \in Uploads |-> NoName]
              /\ taken = {}

Start(u) == /\ phase[u] = "none"
            /\ phase' = [phase EXCEPT ![u] = "active"]
            /\ bytes' = [bytes EXCEPT ![u] = 0]
            /\ \E n \in Names : target' = [target EXCEPT ![u] = n]
            /\ UNCHANGED taken

Receive(u) == /\ phase[u] = "active" /\ bytes[u] < Size
              /\ bytes' = [bytes EXCEPT ![u] = @ + 1]
              /\ UNCHANGED <<phase, target, taken>>

Take(u) == /\ phase[u] # "none" /\ bytes[u] = Size
           /\ taken' = taken \cup {target[u]}
           /\ UNCHANGED <<phase, bytes, target>>

Complete(u) == /\ phase[u] = "active" /\ bytes[u] = Size /\ target[u] \in taken
               /\ phase' = [phase EXCEPT ![u] = "complete"]
               /\ UNCHANGED <<bytes, target, taken>>

End(u) == /\ phase[u] = "active"
          /\ \E how \in {"failed", "cancelled"} : phase' = [phase EXCEPT ![u] = how]
          /\ UNCHANGED <<bytes, target, taken>>

UploadNext == \E u \in Uploads : Start(u) \/ Receive(u) \/ Take(u) \/ Complete(u) \/ End(u)

UploadSpec == UploadInit /\ [][UploadNext]_uploadVars
==============================================================================
