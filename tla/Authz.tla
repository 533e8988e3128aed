------------------------------- MODULE Authz -------------------------------
(***************************************************************************)
(* Roles and permissions (src/src/authz.py).  Two permissions no modelled   *)
(* operation asks for (report.export and audit.read) stay in the table:     *)
(* the table is the policy.                                                 *)
(***************************************************************************)

Roles == {"Admin", "Risk Manager", "Analyst", "Viewer"}

ALL_PERMISSIONS ==
    {"vendor.read", "vendor.write", "assessment.manage", "evidence.read",
     "evidence.upload", "evidence.analyze", "finding.manage",
     "monitoring.manage", "report.export", "admin.manage", "audit.read"}

permissions_for_role(role) ==
    CASE role = "Admin"        -> ALL_PERMISSIONS
      [] role = "Risk Manager" -> ALL_PERMISSIONS \ {"admin.manage"}
      [] role = "Analyst"      -> ALL_PERMISSIONS
                                    \ {"vendor.write", "report.export",
                                       "admin.manage", "audit.read"}
      [] role = "Viewer"       -> {"vendor.read", "evidence.read",
                                   "report.export"}

can(role, permission) == permission \in permissions_for_role(role)
=============================================================================
