SPECIFICATION WebhookSpec
CONSTANTS
    Required = {"name", "version"}
    Others = {"team"}
    Namespaces = {"default", "kube-system"}
    Ignored = {"kube-system"}
    MaxRequests = 2
CHECK_DEADLOCK FALSE
INVARIANT LabelledAdmitted
