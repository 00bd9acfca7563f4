----------------------------- MODULE MCQuotaJobs -----------------------------
(***************************************************************************)
(* Configurations: everything in two regions, a region listed twice, OIDC  *)
(* providers without us-east-1, the storage metric, a service that is not  *)
(* known, and a name that does not validate.                               *)
(***************************************************************************)
EXTENDS QuotaJobs

CONSTANTS usEast1, euWest1, vpc1, vpc2

MCUsEast1 == usEast1
MCVpcIds == {vpc1, vpc2}
MCConfigs == {
  [regions |-> <<usEast1, euWest1>>,
   services |-> [ec2 |-> <<"networkInterfaces">>, iam |-> <<"oidcProviders">>, vpc |-> <<"nau">>]],
  [regions |-> <<euWest1, euWest1>>,
   services |-> [eks |-> <<"listClusters">>, vpc |-> <<"nau">>]],
  [regions |-> <<euWest1>>,
   services |-> [iam |-> <<"iamRoles", "oidcProviders">>, ebs |-> <<"gp3storage">>, sts |-> <<>>]],
  [regions |-> <<euWest1>>, services |-> [vpc |-> <<"nau", "naus">>]]}
=============================================================================
