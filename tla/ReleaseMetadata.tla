--------------------------- MODULE ReleaseMetadata ---------------------------
(***************************************************************************)
(* What the self-update believes about a release (manifest.go): which of   *)
(* two versions is the newer one, which envelopes are accepted, and which  *)
(* devices a staged rollout has.  These are functions of their input: the  *)
(* coordinator of UpdateCoordinator acts on their results.                 *)
(***************************************************************************)
EXTENDS Integers

MaxPart           == 999999999          \* versionPattern: nine digits
MaxSafeInteger    == 9007199254740991
MaxInstallerBytes == 1024 * 1024 * 1024
AllPoints         == 10000

(* Major, minor and patch.                                                 *)
SemanticVersions == [1 .. 3 -> 0 .. MaxPart]

OlderAt(i, left, right) ==
  /\ left[i] < right[i]
  /\ \A j \in 1 .. i - 1 : left[j] = right[j]

Older(left, right) == \E i \in 1 .. 3 : OlderAt(i, left, right)

CompareVersions(left, right) ==
  IF Older(left, right) THEN -1 ELSE IF Older(right, left) THEN 1 ELSE 0

-----------------------------------------------------------------------------
(* A manifest: the version a file name or a path is built from stands for  *)
(* it; wellFormed is what is only a pattern, a fixed value or a date.      *)
Rollouts == [status : {"active", "paused"}, points : Int]

Manifests ==
  [version : SemanticVersions, filename : SemanticVersions, urlPath : SemanticVersions,
   channel : {"stable", "beta"}, sequence : Int, size : Int, rollout : Rollouts,
   wellFormed : BOOLEAN]

ValidRollout(rollout) ==
  /\ rollout.points \in 0 .. AllPoints
  /\ rollout.status = "active" => rollout.points # 0

ValidateManifest(manifest) ==
  /\ manifest.wellFormed
  /\ manifest.sequence \in 1 .. MaxSafeInteger
  /\ manifest.filename = manifest.version /\ manifest.urlPath = manifest.version
  /\ manifest.size \in 1 .. MaxInstallerBytes
  /\ ValidRollout(manifest.rollout)

(* A signature is by a key and of a payload, which is the manifest under   *)
(* the domain of the product.                                              *)
ParseAndVerify(envelope, trustedKeys) ==
  /\ ValidateManifest(envelope.manifest)
  /\ envelope.signatureKeyID \in trustedKeys
  /\ envelope.signature = [by |-> envelope.signatureKeyID, of |-> envelope.manifest]

(* digest is the number in the first four bytes of the hash over the seed  *)
(* of the release and the identity of the device.                          *)
RolloutEligible(rollout, digest) ==
  /\ rollout.status = "active"
  /\ rollout.points > 0
  /\ rollout.points = AllPoints \/ digest % AllPoints < rollout.points

(* Client.Check: what an answer of the update service makes of itself.     *)
CheckedRelease(envelope, trustedKeys, current, channel, digest) ==
  IF ~ParseAndVerify(envelope, trustedKeys) \/ envelope.manifest.channel # channel
  THEN [error |-> TRUE, available |-> FALSE, eligible |-> FALSE]
  ELSE LET newer == CompareVersions(envelope.manifest.version, current) > 0
       IN  [error |-> FALSE, available |-> newer,
            eligible |-> newer /\ RolloutEligible(envelope.manifest.rollout, digest)]
=============================================================================
