------------------------ MODULE MCMediationEvidence ------------------------
(* A small instance of MediationEvidence for TLC: the requester's own      *)
(* backend, the mediated probe, and a mediated request of a kind that the  *)
(* order does not grant, with requests that fail one test or two.          *)
EXTENDS MediationEvidence, TLC

CONSTANTS requester, probe, other, path, socket

MCKind == probe :> "run_artifact" @@ other :> "write_file"
MCFaultSets ==
  {{}, {"unencodable", "bad_payload_type"}, {"unencodable", "missing_field"}}
MCDeployments ==
  {{}, {"arguments", "missing"}, {"undecodable"}, {"missing"}, {"no_kubeconfig"}}
=============================================================================
