------------------------------- MODULE Service -------------------------------
(***************************************************************************)
(* The service: the requests of Http handled by the process whose          *)
(* configuration changes as in Settings.  The two meet in _config, which   *)
(* getConfig() reads for every request and reloadConfig takes away, and in *)
(* the process, which either may end.  What Http reckons with as Reload,   *)
(* at any time and in any order, are here the reloads of settings.js.      *)
(***************************************************************************)
EXTENDS Settings, Http

serviceVars == <<vars, httpVars>>

ServiceInit == Init /\ HttpInit

(* A request's next step; it leaves the configuration alone. *)
Serves == ended = "no" /\ Serve /\ UNCHANGED vars

Requests ==
  \/ Serves
  \/ ended = "no" /\ (Arrives \/ CalledBack \/ Leaves) /\ UNCHANGED vars

(* A step of a reload, of a wallet's start or stop, or of a health check, in
   the code of some other request: getConfig() has what is left of the
   configuration, and process.exit(0) ends every request. *)
Configures ==
  /\ ended = "no" /\ Next
  /\ available' = (config' # None)
  /\ ended' = IF exited' THEN "reload" ELSE ended
  /\ UNCHANGED <<stage, route, body, err, status>>

ServiceNext == Requests \/ Configures

ServiceSpec == ServiceInit /\ [][ServiceNext]_serviceVars /\ WF_serviceVars(Serves)

-----------------------------------------------------------------------------
(***************************************************************************)
(* To the requests it handles, the service is what Http describes, and so  *)
(* all that is said of Http holds of it: whatever reloads, starts and      *)
(* stops are under way, getConfig() has a configuration or has none, a     *)
(* reload ends the process only after it took the configuration away, so   *)
(* that no request is let in between its decision and the exit, and no     *)
(* request waits for a reload to end.  (settings.js:102-108, 266-283)      *)
(***************************************************************************)
RequestsAreServed == HttpSpec
=============================================================================
