\* Three sections: a text field and a password in two forms, two text fields
\* in one, and fields that are saved at once.
CONSTANTS
  host = host
  port = port
  secret = secret
  flag = flag
  groups = groups
  roles = roles
  server = server
  other = other
  Field = {host, port, secret, flag, groups, roles}
  Pages <- PagesOfFields
  Form = {server, other}
  FormOf <- FormOfField
  Kind <- KindOfField
  Sensitive = {secret}
  Value = {v0, v1}
  Initial = v0
  Mask = Mask
  Nothing = Nothing
  SavesFail = TRUE
  Revisits = TRUE
  SaveSlot = {q1, q2}
SPECIFICATION FormsSpec
SYMMETRY SlotSymmetry
INVARIANTS FormsTypeOK LastChoiceSaved RevisitShowsChoice
