---------------------------- MODULE WorkflowRules ----------------------------
(***************************************************************************)
(* The static rules the services consult: the workflow state table, the    *)
(* role and permission matrix, and the reviewer-independence tables.       *)
(* Everything here is a constant; the modules of the job's life extend it. *)
(***************************************************************************)
EXTENDS Naturals

(***************************************************************************)
(* Workflow states and the transition table                                *)
(***************************************************************************)

WorkflowState ==
  { "draft", "metadata_complete", "equipment_selected", "data_entered",
    "windows_selected", "calculated", "technical_review", "qa_review",
    "approved", "released", "revised", "voided" }

AllowedTransitions ==
  [ draft              |-> {"metadata_complete", "voided"},
    metadata_complete  |-> {"equipment_selected", "voided"},
    equipment_selected |-> {"data_entered", "voided"},
    data_entered       |-> {"windows_selected", "voided"},
    windows_selected   |-> {"calculated", "voided"},
    calculated         |-> {"technical_review", "voided"},
    technical_review   |-> {"qa_review", "voided"},
    qa_review          |-> {"approved", "voided"},
    approved           |-> {"released", "voided"},
    released           |-> {"revised"},
    revised            |-> {"voided"},
    voided             |-> {} ]

CanTransition(current, target) == target \in AllowedTransitions[current]

(***************************************************************************)
(* Roles and permissions (only the actions that touch a job or a number)   *)
(***************************************************************************)

Role == {"operator", "technical_reviewer", "qa_approver", "admin", "read_only"}

OperatorActions ==
  { "create_calibration_job", "edit_draft_job_metadata",
    "select_reference_equipment", "upload_import_file",
    "enter_manual_readings", "select_measurement_windows",
    "run_calculation", "preview_certificate", "submit_technical_review",
    "view_released_certificate" }

TechnicalReviewerActions ==
  OperatorActions \cup
  {"approve_technical_review", "view_audit_trail", "create_uncertainty_budget"}

QaApproverActions ==
  { "approve_qa_release", "preview_certificate", "release_certificate",
    "revise_released_certificate", "void_certificate", "view_audit_trail",
    "approve_constants", "approve_uncertainty_budget",
    "view_released_certificate" }

AllActions ==
  TechnicalReviewerActions \cup QaApproverActions \cup
  {"create_constants", "manage_certificate_numbers", "manage_users_and_roles"}

Permissions ==
  [ operator           |-> OperatorActions,
    technical_reviewer |-> TechnicalReviewerActions,
    qa_approver        |-> QaApproverActions,
    admin              |-> AllActions,
    read_only          |-> {"view_released_certificate"} ]

IsAllowed(role, action) == action \in Permissions[role]

(***************************************************************************)
(* Reviewer independence                                                   *)
(***************************************************************************)

ReviewerIndependenceStage ==
  {"technical_review_approval", "qa_release_approval", "certificate_release"}

WorkflowStateConflicts ==
  [ technical_review_approval |-> {"technical_review"},
    qa_release_approval       |-> {"technical_review", "qa_review"},
    certificate_release       |-> {"technical_review", "qa_review", "approved"} ]
==============================================================================
