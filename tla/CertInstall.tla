---------------------------- MODULE CertInstall ----------------------------
(***************************************************************************)
(* Installing a SUPL certificate: the D-Bus method SuplInstallCertificate  *)
(* leaves a request (mbm_modem.c: modem_install_supl_certificate) that the *)
(* loop thread serves at the head of its next turn (mbm_modem.c:           *)
(* modem_check_and_handle_gps_states, mbm_supl.c:                          *)
(* supl_install_certificate).  The request is three stores, its end is two *)
(* more, and no lock orders them between the threads.                      *)
(***************************************************************************)
EXTENDS Naturals

CONSTANT MaxRequests   \* bound: requests in a behaviour, each for a new file

ASSUME CertConstantsOK == MaxRequests \in Nat

NoFile == 0
Files == 1..MaxRequests   \* the n-th request is for file n

VARIABLES
  flag,      \* priv->install_supl_cert
  status,    \* priv->install_supl_cert_status
  path,      \* priv->certificate_file_path
  storesLeft, \* the next store of the D-Bus thread: "idle", "status", "path"
  requests,  \* requests so far
  place,     \* where the loop thread is
  file,      \* the file it is installing
  installed, \* the certificate the modem has
  clean      \* neither thread stepped between the stores with which the other
             \* began or ended the last request

certCall == <<storesLeft, requests>>
certLoop == <<place, file>>
certVars == <<flag, status, path, certCall, certLoop, installed, clean>>

CertInit ==
  /\ flag = FALSE /\ status = "not_started" /\ path = NoFile
  /\ storesLeft = "idle" /\ requests = 0
  /\ place = "top" /\ file = NoFile /\ installed = NoFile
  /\ clean = TRUE

-----------------------------------------------------------------------------
(* The D-Bus thread.                                                       *)

\* Nothing is being served: a request now is the only one.
Unserved == place \in {"top", "rest"} /\ ~flag

Request ==
  /\ storesLeft = "idle" /\ requests < MaxRequests /\ requests' = requests + 1
  /\ flag' = TRUE /\ storesLeft' = "status" /\ clean' = Unserved
  /\ UNCHANGED <<status, path, certLoop, installed>>

StoreRunning ==
  /\ storesLeft = "status" /\ storesLeft' = "path"
  /\ status' = "running"
  /\ UNCHANGED <<flag, path, requests, certLoop, installed, clean>>

StorePath ==
  /\ storesLeft = "path" /\ storesLeft' = "idle"
  /\ path' = requests
  /\ UNCHANGED <<flag, status, requests, certLoop, installed, clean>>

-----------------------------------------------------------------------------
(* The loop thread.                                                        *)

TestFlag ==
  /\ place = "top" /\ flag
  /\ place' = "open" /\ clean' = (clean /\ storesLeft = "idle")
  /\ UNCHANGED <<flag, status, path, certCall, file, installed>>

\* No request: the rest of the turn, and the head of the next.
Idle ==
  /\ place = "top" /\ ~flag /\ place' = "rest"
  /\ UNCHANGED <<flag, status, path, certCall, file, installed, clean>>

\* The turn may keep the loop for good, suspended at its head or blocked in a
\* read; else it comes to the flag again.
NextTurn ==
  /\ place = "rest" /\ place' = "top"
  /\ UNCHANGED <<flag, status, path, certCall, file, installed, clean>>

\* fopen, fseek, malloc, fread of the path as it is now.
Open ==
  /\ place = "open"
  /\ \/ path # NoFile /\ file' = path /\ place' = "length"
     \/ place' = "failed" /\ UNCHANGED file
  /\ UNCHANGED <<flag, status, path, certCall, installed, clean>>

\* AT*E2CERT=<length>, answered by ">" or not.
SendLength ==
  /\ place = "length"
  /\ place' \in {"data", "failed"}
  /\ UNCHANGED <<flag, status, path, certCall, file, installed, clean>>

SendDataUnanswered ==   \* faulty: no answer is taken for an OK
  /\ place = "data"
  /\ installed' \in {file, installed} /\ place' = "success"
  /\ UNCHANGED <<flag, status, path, certCall, file, clean>>

\* The certificate itself, whose answer may also be missing though the modem
\* has taken it.
SendData ==
  /\ place = "data"
  /\ \/ installed' = file /\ place' \in {"success", "failed"}
     \/ place' = "failed" /\ UNCHANGED installed
  /\ UNCHANGED <<flag, status, path, certCall, file, clean>>

FinishTwice ==   \* faulty: the request stays
  /\ place \in {"success", "failed"}
  /\ status' = place /\ file' = NoFile /\ place' = "top"
  /\ UNCHANGED <<flag, path, certCall, installed, clean>>

FinishWithoutFailure ==   \* faulty: only a success is reported
  /\ place \in {"success", "failed"}
  /\ status' = (IF place = "success" THEN place ELSE status)
  /\ file' = NoFile /\ place' = "clear"
  /\ UNCHANGED <<flag, path, certCall, installed, clean>>

Finish ==
  /\ place \in {"success", "failed"}
  /\ status' = place /\ file' = NoFile /\ place' = "clear"
  /\ UNCHANGED <<flag, path, certCall, installed, clean>>

ClearFlag ==
  /\ place = "clear" /\ place' = "rest"
  /\ flag' = FALSE
  /\ UNCHANGED <<status, path, certCall, file, installed, clean>>

-----------------------------------------------------------------------------
CertLoop == TestFlag \/ Idle \/ Open \/ Finish \/ ClearFlag
Long == SendLength \/ SendData \/ NextTurn
CertDBus == Request \/ StoreRunning \/ StorePath

CertNext == CertLoop \/ Long \/ CertDBus

\* Both threads run, and a call once begun ends; nobody has to call, and what
\* uses a device may keep the loop for good.
CertSpec ==
  /\ CertInit /\ [][CertNext]_certVars
  /\ WF_certVars(CertLoop) /\ WF_certVars(StoreRunning \/ StorePath)

-----------------------------------------------------------------------------
CertTypeOK ==
  /\ flag \in BOOLEAN
  /\ status \in {"not_started", "running", "failed", "success"}
  /\ path \in Files \union {NoFile} /\ requests \in 0..MaxRequests
  /\ storesLeft \in {"idle", "status", "path"}
  /\ place \in {"top", "rest", "open", "length", "data", "success", "failed", "clear"}
  /\ file \in Files \union {NoFile}
  /\ installed \in Files \union {NoFile} /\ clean \in BOOLEAN

\* A caller that reads "success" after its own request, the last one made, has
\* that very certificate in the modem, if the threads' stores did not mix.
StatusIsTrue ==
  clean /\ status = "success" /\ storesLeft = "idle" => installed = requests

\* A request that is running is being served or will be: it is not forgotten
\* and does not run for ever, if the threads' stores did not mix and the loop
\* is not suspended or blocked for good, in a command or elsewhere.
RequestEnds ==
  [](clean /\ status = "running"
       => <>(~clean \/ status # "running" \/ [](place \in {"length", "data", "rest"})))

\* A request is served once: the loop opens no certificate after the status
\* has said that the last request has ended.
ServedOnce == [][Open /\ clean => status = "running"]_certVars
=============================================================================
