SPECIFICATION Spec
CONSTANTS
  alice = alice
  acme = acme
  zenith = zenith
  client_a = client_a
  client_z = client_z
  store = store
  None = None
  User = {alice}
  Agency = {acme, zenith}
  Client = {client_a, client_z}
  Slug = {s1, s2, s3}
  UserAgency <- MCUserAgency
  ClientAgency <- MCClientAgency
  ClientSlug <- MCClientSlug
PROPERTY RoleCheckDecides
